---- MODULE Spec2Model ----
(***************************************************************************)
(* go.rtmp: the inbound chunk-stream decoder of the RTMP protocol stack    *)
(* (src/rtmp/protocol.go) over the connection buffer (src/rtmp/buffer.go,  *)
(* src/rtmp/hp_buffer.go) and the counting socket (src/unnamed/part_005).  *)
(*                                                                         *)
(* The server side is translated from the source.  The peer is the         *)
(* environment: it writes RTMP chunks, byte for byte in the wire format,   *)
(* to the connection; the decoder parses those bytes as the code does.     *)
(***************************************************************************)
EXTENDS Integers, Sequences, FiniteSets, TLC

(***************************************************************************)
(* Bounds of the model.                                                    *)
(***************************************************************************)
\* number of chunks the peer writes in one behaviour
MaxChunks == 4

\* the number of Set calls on one AMF0 container
MaxSets == 3

\* the number of bytes a client sends during the handshake: C0, C1, C2 and one more
MaxClientBytes == 3074

\* the number of times the socket receives bytes, and of EnsureBufferBytes calls
MaxDeliveries == 2

\* the number of SendPacket calls
MaxSends == 3

(***************************************************************************)
(* Program constants.                                                      *)
(***************************************************************************)
RTMP_DEFAULT_CHUNK_SIZE == 128
RTMP_EXTENDED_TIMESTAMP == 16777215
RTMP_FMT_TYPE0 == 0
RTMP_FMT_TYPE1 == 1
RTMP_FMT_TYPE2 == 2
RTMP_SOCKET_READ_SIZE == 4096

\* error codes, by name; NoError is Go's nil error
NoError == "nil"
ERROR_RTMP_CHUNK_START == "ERROR_RTMP_CHUNK_START"
ERROR_RTMP_PACKET_SIZE == "ERROR_RTMP_PACKET_SIZE"
ERROR_RTMP_MSG_INVLIAD_SIZE == "ERROR_RTMP_MSG_INVLIAD_SIZE"

\* message types (RTMP 5.1, 5.5, 4.1)
RTMP_MSG_SetChunkSize == 1
RTMP_MSG_WindowAcknowledgementSize == 5
RTMP_MSG_AudioMessage == 8
RTMP_MSG_VideoMessage == 9
RTMP_MSG_AMF3DataMessage == 15
RTMP_MSG_AMF3CommandMessage == 17
RTMP_MSG_AMF0DataMessage == 18
RTMP_MSG_AMF0CommandMessage == 20

VARIABLES
    buf,            \* HPBuffer.buf of the connection buffer: every byte read from the socket
    off,            \* HPBuffer.off: the read cursor into buf
    recv_bytes,     \* rtmpTCPSocket.recv_bytes
    send_bytes,     \* rtmpTCPSocket.send_bytes
    chunkStreams,   \* protocol.chunkStreams: cid -> RtmpChunkStream
    inChunkSize,    \* protocol.inChunkSize
    outChunkSize,   \* protocol.outChunkSize
    inAckSize,      \* protocol.inAckSize: RtmpAckWindowSize
    err,            \* the error the receive loop ended with, NoError while it runs
    delivered,      \* history: the messages RecvMessage returned, in order
    parts,          \* history: cid -> the chunks of the message in the slot
    accepted,       \* history: the cids on which a chunk header was accepted
    announced,      \* history: what the control messages returned so far carried
    last,           \* history: what the last recv_interlaced_message call saw and did
    expect,         \* the ExpectMessage call: what it waits for and what it returned
    amf0,           \* an AMF0 value of the application, its encoding and its decoding
    handshake,      \* SimpleHandshake: its position, its buffers and the client
    peer,           \* the peer: its chunk streams, chunk size, and what it has sent
    clock,          \* history: cid -> the timestamps and deltas the peer has sent
    wire,           \* history: the chunks the peer wrote, whole or cut short
    live,           \* history: whether the receive loop can take a turn, and its turns
    ensure,         \* an EnsureBufferBytes call, and the socket it reads from
    stream,         \* a stream of payload bytes under the AMF0 decoder, and its cursor
    out             \* the outbound chunk codec: the packets sent and the chunks written

vars == <<buf, off, recv_bytes, send_bytes, chunkStreams, inChunkSize, outChunkSize,
          inAckSize, err, delivered, parts, accepted, announced, last, expect, amf0, handshake, peer,
          clock, wire, live, ensure, stream, out>>

\* the histories that only the specifications which keep them change
later == <<wire, live, ensure, stream, out>>

\* the state beside the chunk decoder, which PeerSend and RecvMessage leave alone
beside == <<expect, amf0, handshake, clock, later>>

\* the state of the parts that work without the connection
apart == <<amf0, handshake, clock, later>>

(***************************************************************************)
(* Integers of the Go code.                                                *)
(***************************************************************************)
Min(a, b) == IF a < b THEN a ELSE b

\* int32(v) of a uint32 v: v - 2^32 when v exceeds the largest int32
ToInt32(v) == IF v > 2147483647 THEN (v - 2147483647) - 2147483647 - 2 ELSE v

\* the concatenation of a sequence of sequences
RECURSIVE Flatten(_)
Flatten(ss) == IF ss = <<>> THEN <<>> ELSE Head(ss) \o Flatten(Tail(ss))

(***************************************************************************)
(* The records of src/unnamed/part_002.                                    *)
(***************************************************************************)
\* new(RtmpMessageHeader): Go's zero value
NewRtmpMessageHeader ==
    [MessageType |-> 0, PayloadLength |-> 0, TimestampDelta |-> 0,
     StreamId |-> 0, Timestamp |-> 0]

\* &RtmpMessage{}: no payload allocated (Payload == nil), nothing received
NewRtmpMessage ==
    [Header |-> NewRtmpMessageHeader, Payload |-> <<>>, PayloadNil |-> TRUE,
     ReceivedPayloadLength |-> 0]

\* a pointer that may be nil is a sequence of length 0 or 1
Nil == <<>>
Ptr(x) == <<x>>
Deref(p) == p[1]

NewRtmpChunkStream(cid) ==
    [CId |-> cid, Header |-> NewRtmpMessageHeader, ExtendedTimestamp |-> FALSE,
     Msg |-> Nil, MsgCount |-> 0]

(***************************************************************************)
(* The connection buffer: b is HPBuffer.buf, o is HPBuffer.off.            *)
(***************************************************************************)
\* HPBuffer.Len
BufLen(b, o) == Len(b) - o

\* EnsureBufferBytes(n) returns without reading when n bytes are buffered;
\* otherwise it reads from the socket until they are
Buffered(b, o, n) == BufLen(b, o) >= n

ReadByte(b, o) == b[o + 1]

\* a read that takes the 3 bytes as a signed number
ReadUInt24_SignExtended(b, o) ==
    IF b[o + 1] >= 128
    THEN b[o + 1] * 65536 + b[o + 2] * 256 + b[o + 3] - 16777216
    ELSE b[o + 1] * 65536 + b[o + 2] * 256 + b[o + 3]

ReadUInt24(b, o) == b[o + 1] * 65536 + b[o + 2] * 256 + b[o + 3]

ReadUInt32(b, o) == b[o + 1] * 16777216 + b[o + 2] * 65536 + b[o + 3] * 256 + b[o + 4]

ReadUInt32Le(b, o) == b[o + 1] + b[o + 2] * 256 + b[o + 3] * 65536 + b[o + 4] * 16777216

\* the big-endian uint32 at the cursor, which stays where it is
TopUInt32(b, o) == ReadUInt32(b, o)

\* Read(p) with len(p) = n: the next n bytes
ReadBytes(b, o, n) == SubSeq(b, o + 1, o + n)

(***************************************************************************)
(* The chunk decoder of src/rtmp/protocol.go.  Every operator takes the    *)
(* buffer (b, o) and returns the new cursor with its results.  A result    *)
(* with blocked = TRUE stands for a call that waits in EnsureBufferBytes   *)
(* for bytes the socket has not delivered yet.                             *)
(***************************************************************************)
\* a decoder that knows the 1-byte basic header only
read_basic_header_OneByte(b, o) ==
    IF ~Buffered(b, o, 1)
    THEN [blocked |-> TRUE, format |-> 0, cid |-> 0, bh_size |-> 0, off |-> o]
    ELSE [blocked |-> FALSE, format |-> (ReadByte(b, o) \div 64) % 4,
          cid |-> ReadByte(b, o) % 64, bh_size |-> 1, off |-> o + 1]

read_basic_header(b, o) ==
    IF ~Buffered(b, o, 1)
    THEN [blocked |-> TRUE, format |-> 0, cid |-> 0, bh_size |-> 0, off |-> o]
    ELSE LET first == ReadByte(b, o)
             cid0 == first % 64
             format == (first \div 64) % 4
         IN  IF cid0 = 0
             THEN IF ~Buffered(b, o + 1, 1)
                  THEN [blocked |-> TRUE, format |-> format, cid |-> 0, bh_size |-> 1,
                        off |-> o + 1]
                  ELSE [blocked |-> FALSE, format |-> format,
                        cid |-> 64 + ReadByte(b, o + 1), bh_size |-> 2, off |-> o + 2]
             ELSE IF cid0 = 1
             THEN IF ~Buffered(b, o + 1, 2)
                  THEN [blocked |-> TRUE, format |-> format, cid |-> 1, bh_size |-> 1,
                        off |-> o + 1]
                  ELSE [blocked |-> FALSE, format |-> format,
                        cid |-> 64 + ReadByte(b, o + 1) + ReadByte(b, o + 2) * 256,
                        bh_size |-> 3, off |-> o + 3]
             ELSE [blocked |-> FALSE, format |-> format, cid |-> cid0, bh_size |-> 1,
                   off |-> o + 1]

mh_sizes == <<11, 7, 3, 0>>

\* the result of read_message_header
MhResult(blocked, e, chunk, o, mh_size) ==
    [blocked |-> blocked, err |-> e, chunk |-> chunk, off |-> o, mh_size |-> mh_size]

\* a size check that never fires
SizeChanged_Never(m, len) == FALSE

\* protocol.go line 302: the cached message has a payload of another size
SizeChanged(m, len) == ~m.PayloadNil /\ Len(m.Payload) # len

\* a flag that stays set once it is set
IsExtended_Sticky(chunk, delta) ==
    chunk.ExtendedTimestamp \/ delta >= RTMP_EXTENDED_TIMESTAMP

\* protocol.go lines 266-268: chunk.ExtendedTimestamp after the 24-bit field
IsExtended(chunk, delta) == delta >= RTMP_EXTENDED_TIMESTAMP

\* a decoder that takes every timestamp field as absolute
TimestampOf_Absolute(chunk, format, delta, ext) ==
    IF ext THEN RTMP_EXTENDED_TIMESTAMP ELSE delta

\* protocol.go lines 269-296: chunk.Header.Timestamp after the 24-bit field
TimestampOf(chunk, format, delta, ext) ==
    IF ext THEN RTMP_EXTENDED_TIMESTAMP
    ELSE IF format = RTMP_FMT_TYPE0 THEN delta
    ELSE chunk.Header.Timestamp + delta

\* a decoder that leaves the timestamp to the format-0, 1 and 2 headers
ReplayDelta_Never(chunk, is_fresh_packet) == chunk

\* protocol.go lines 314-317: a format-3 chunk that opens a message
ReplayDelta(chunk, is_fresh_packet) ==
    IF is_fresh_packet /\ ~chunk.ExtendedTimestamp
    THEN [chunk EXCEPT !.Header.Timestamp = @ + chunk.Header.TimestampDelta]
    ELSE chunk

\* protocol.go lines 250-318: the fields of the message header, by format.
\* The cursor is at the first byte of the message header, which is buffered.
ParseMessageHeader(chunk, format, is_fresh_packet, b, o) ==
    IF format <= RTMP_FMT_TYPE2
    THEN LET delta == ReadUInt24(b, o)
             ext == IsExtended(chunk, delta)
             ts == TimestampOf(chunk, format, delta, ext)
             c1 == [chunk EXCEPT !.Header.TimestampDelta = delta,
                                 !.ExtendedTimestamp = ext,
                                 !.Header.Timestamp = ts]
         IN  IF format <= RTMP_FMT_TYPE1
             THEN LET len == ReadUInt24(b, o + 3)
                      c2 == [c1 EXCEPT !.Header.PayloadLength = len]
                      m == Deref(chunk.Msg)
                  IN  IF SizeChanged(m, len)
                      THEN MhResult(FALSE, ERROR_RTMP_PACKET_SIZE, c2, o + 6, 0)
                      ELSE LET c3 == [c2 EXCEPT !.Header.MessageType = ReadByte(b, o + 6)]
                           IN  IF format = RTMP_FMT_TYPE0
                               THEN MhResult(FALSE, NoError,
                                        [c3 EXCEPT !.Header.StreamId = ReadUInt32Le(b, o + 7)],
                                        o + 11, 0)
                               ELSE MhResult(FALSE, NoError, c3, o + 7, 0)
             ELSE MhResult(FALSE, NoError, c1, o + 3, 0)
    ELSE MhResult(FALSE, NoError, ReplayDelta(chunk, is_fresh_packet), o, 0)

\* a decoder that takes the 4 bytes as the extended timestamp whatever they are
ParseExtendedTimestamp_AlwaysConsume(chunk, mh_size, b, o) ==
    IF ~chunk.ExtendedTimestamp
    THEN MhResult(FALSE, NoError, chunk, o, mh_size)
    ELSE IF ~Buffered(b, o, 4)
    THEN MhResult(TRUE, NoError, chunk, o, mh_size + 4)
    ELSE MhResult(FALSE, NoError, [chunk EXCEPT !.Header.Timestamp = TopUInt32(b, o)],
                  o + 4, mh_size + 4)

\* a decoder that keeps the extended timestamp of the first chunk only
ParseExtendedTimestamp_FirstChunkOnly(chunk, mh_size, b, o) ==
    IF ~chunk.ExtendedTimestamp
    THEN MhResult(FALSE, NoError, chunk, o, mh_size)
    ELSE IF ~Buffered(b, o, 4)
    THEN MhResult(TRUE, NoError, chunk, o, mh_size + 4)
    ELSE IF chunk.Header.Timestamp > RTMP_EXTENDED_TIMESTAMP
    THEN MhResult(FALSE, NoError, chunk, o, mh_size)
    ELSE MhResult(FALSE, NoError, [chunk EXCEPT !.Header.Timestamp = TopUInt32(b, o)],
                  o + 4, mh_size + 4)

\* protocol.go lines 320-339: the extended timestamp, present or not
ParseExtendedTimestamp(chunk, mh_size, b, o) ==
    IF ~chunk.ExtendedTimestamp
    THEN MhResult(FALSE, NoError, chunk, o, mh_size)
    ELSE IF ~Buffered(b, o, 4)
    THEN MhResult(TRUE, NoError, chunk, o, mh_size + 4)
    ELSE LET timestamp == TopUInt32(b, o)
         IN  IF chunk.Header.Timestamp > RTMP_EXTENDED_TIMESTAMP
                /\ chunk.Header.Timestamp # timestamp
             THEN MhResult(FALSE, NoError, chunk, o, mh_size)
             ELSE MhResult(FALSE, NoError, [chunk EXCEPT !.Header.Timestamp = timestamp],
                           o + 4, mh_size + 4)

\* protocol.go lines 341-354: validate, copy the header to the message, count
FinishMessageHeader(chunk, mh_size, o) ==
    IF ToInt32(chunk.Header.PayloadLength) < 0
    THEN MhResult(FALSE, ERROR_RTMP_MSG_INVLIAD_SIZE, chunk, o, mh_size)
    ELSE MhResult(FALSE, NoError,
             [chunk EXCEPT !.Msg = Ptr([Deref(chunk.Msg) EXCEPT !.Header = chunk.Header]),
                           !.MsgCount = @ + 1],
             o, mh_size)

\* a decoder that takes any format on a fresh chunk stream
FreshStreamNotType0_Never(chunk, format) == FALSE

\* protocol.go line 224: the chunk stream is fresh and the format is not 0
FreshStreamNotType0(chunk, format) == chunk.MsgCount = 0 /\ format # RTMP_FMT_TYPE0

\* a decoder that takes format 0 whatever the slot holds
Type0OnCachedMsg_Never(chunk, format) == FALSE

\* protocol.go line 231: a message is cached and the format is 0
Type0OnCachedMsg(chunk, format) == chunk.Msg # Nil /\ format = RTMP_FMT_TYPE0

\* a decoder that starts every message with a zero header
StartMessage_ZeroHeader(chunk) ==
    IF chunk.Msg = Nil
    THEN [chunk EXCEPT !.Msg = Ptr(NewRtmpMessage), !.Header = NewRtmpMessageHeader]
    ELSE chunk

\* protocol.go lines 237-239: create msg when a new message starts
StartMessage(chunk) ==
    IF chunk.Msg = Nil THEN [chunk EXCEPT !.Msg = Ptr(NewRtmpMessage)] ELSE chunk

read_message_header(chunk, format, b, o) ==
    LET is_fresh_packet == chunk.Msg = Nil
    IN  IF FreshStreamNotType0(chunk, format)
        THEN MhResult(FALSE, ERROR_RTMP_CHUNK_START, chunk, o, 0)
        ELSE IF Type0OnCachedMsg(chunk, format)
        THEN MhResult(FALSE, ERROR_RTMP_CHUNK_START, chunk, o, 0)
        ELSE LET c0 == StartMessage(chunk)
                 mh_size == mh_sizes[format + 1]
             IN  IF ~Buffered(b, o, mh_size)
                 THEN MhResult(TRUE, NoError, c0, o, mh_size)
                 ELSE LET p == ParseMessageHeader(c0, format, is_fresh_packet, b, o)
                      IN  IF p.err # NoError
                          THEN MhResult(FALSE, p.err, p.chunk, p.off, mh_size)
                          ELSE LET x == ParseExtendedTimestamp(p.chunk, mh_size, b, p.off)
                               IN  IF x.blocked THEN x
                                   ELSE FinishMessageHeader(x.chunk, x.mh_size, x.off)

\* the result of read_message_payload
MpResult(blocked, chunk, o, msg, payload_size) ==
    [blocked |-> blocked, chunk |-> chunk, off |-> o, msg |-> msg,
     payload_size |-> payload_size]

\* a copy that always starts at the head of the payload
CopyInto_AtStart(payload, from, bytes) ==
    [i \in 1..Len(payload) |-> IF i <= Len(bytes) THEN bytes[i] ELSE payload[i]]

\* Payload[from : from + Len(bytes)] = bytes
CopyInto(payload, from, bytes) ==
    [i \in 1..Len(payload) |->
        IF i > from /\ i <= from + Len(bytes) THEN bytes[i - from] ELSE payload[i]]

\* a payload allocated for one chunk of the default size at most
MakeBytes_OneChunk(n) == [i \in 1..Min(n, RTMP_DEFAULT_CHUNK_SIZE) |-> 0]

\* make([]byte, n)
MakeBytes(n) == [i \in 1..n |-> 0]

\* the entire message is returned and stays in the slot
TakeEntireMessage_KeepSlot(chunk, m, o, payload_size) ==
    IF m.ReceivedPayloadLength = Len(m.Payload)
    THEN MpResult(FALSE, [chunk EXCEPT !.Msg = Ptr(m)], o, Ptr(m), payload_size)
    ELSE MpResult(FALSE, [chunk EXCEPT !.Msg = Ptr(m)], o, Nil, payload_size)

\* the message leaves the slot with the first bytes it received
TakeEntireMessage_Early(chunk, m, o, payload_size) ==
    IF m.ReceivedPayloadLength <= Len(m.Payload)
    THEN MpResult(FALSE, [chunk EXCEPT !.Msg = Nil], o, Ptr(m), payload_size)
    ELSE MpResult(FALSE, [chunk EXCEPT !.Msg = Ptr(m)], o, Nil, payload_size)

\* protocol.go lines 381-386: the message leaves the slot when it is entire
TakeEntireMessage(chunk, m, o, payload_size) ==
    IF m.ReceivedPayloadLength = Len(m.Payload)
    THEN MpResult(FALSE, [chunk EXCEPT !.Msg = Nil], o, Ptr(m), payload_size)
    ELSE MpResult(FALSE, [chunk EXCEPT !.Msg = Ptr(m)], o, Nil, payload_size)

\* protocol.go lines 357-389.  The call that waits at line 373 has allocated
\* the payload; it goes on from there when the bytes arrive, which is the call
\* made again on the chunk stream as it was.
read_message_payload(chunk, chunk_size, b, o) ==
    IF ToInt32(chunk.Header.PayloadLength) <= 0
    THEN MpResult(FALSE, [chunk EXCEPT !.Msg = Nil], o, chunk.Msg, 0)
    ELSE LET m0 == Deref(chunk.Msg)
             payload_size == Min(chunk.Header.PayloadLength - m0.ReceivedPayloadLength,
                                 chunk_size)
             m1 == IF m0.PayloadNil
                   THEN [m0 EXCEPT !.Payload = MakeBytes(m0.Header.PayloadLength),
                                   !.PayloadNil = FALSE]
                   ELSE m0
         IN  IF ~Buffered(b, o, payload_size)
             THEN MpResult(TRUE, chunk, o, Nil, payload_size)
             ELSE LET m2 == [m1 EXCEPT
                                !.Payload = CopyInto(m1.Payload, m1.ReceivedPayloadLength,
                                                     ReadBytes(b, o, payload_size)),
                                !.ReceivedPayloadLength = @ + payload_size]
                  IN  TakeEntireMessage(chunk, m2, o + payload_size, payload_size)

\* a table with one chunk stream for all chunk stream ids
PutChunkStream_Shared(cs, cid, chunk) ==
    [c \in DOMAIN cs \cup {cid} |-> chunk]

\* chunkStreams[cid] = chunk
PutChunkStream(cs, cid, chunk) ==
    [c \in DOMAIN cs \cup {cid} |-> IF c = cid THEN chunk ELSE cs[c]]

\* what read_message_header had and did at the extended timestamp: the cursor
\* o after the basic header, the flag and the timestamp of the chunk stream when
\* line 320 is reached, and the mh_size the call returns
HeaderTrace(chunk, format, b, o) ==
    LET c0 == StartMessage(chunk)
        parsed == Buffered(b, o, mh_sizes[format + 1])
        p == ParseMessageHeader(c0, format, chunk.Msg = Nil, b, o)
    IN  [off |-> o,
         ExtendedTimestamp |-> parsed /\ p.chunk.ExtendedTimestamp,
         Timestamp |-> IF parsed THEN p.chunk.Header.Timestamp ELSE 0,
         mh_size |-> IF parsed THEN read_message_header(chunk, format, b, o).mh_size
                     ELSE 0]

\* the result of recv_interlaced_message
RimResult(blocked, e, cs, o, msg, format, cid, payload_size) ==
    [blocked |-> blocked, err |-> e, chunkStreams |-> cs, off |-> o, msg |-> msg,
     format |-> format, cid |-> cid, payload_size |-> payload_size]

\* protocol.go line 144: the chunk stream the decoder works on
GetChunkStream(cs, cid) ==
    IF cid \in DOMAIN cs THEN cs[cid] ELSE NewRtmpChunkStream(cid)

recv_interlaced_message(cs, chunk_size, b, o) ==
    LET bh == read_basic_header(b, o)
    IN  IF bh.blocked
        THEN RimResult(TRUE, NoError, cs, bh.off, Nil, bh.format, bh.cid, 0)
        ELSE LET chunk == GetChunkStream(cs, bh.cid)
                 mh == read_message_header(chunk, bh.format, b, bh.off)
             IN  IF mh.blocked \/ mh.err # NoError
                 THEN RimResult(mh.blocked, mh.err, PutChunkStream(cs, bh.cid, mh.chunk),
                                mh.off, Nil, bh.format, bh.cid, 0)
                 ELSE LET mp == read_message_payload(mh.chunk, chunk_size, b, mh.off)
                      IN  RimResult(mp.blocked, NoError,
                                    PutChunkStream(cs, bh.cid, mp.chunk), mp.off, mp.msg,
                                    bh.format, bh.cid, mp.payload_size)

(***************************************************************************)
(* The ACK window (protocol.go lines 30-36, 125-134, 391-394).             *)
(***************************************************************************)
\* RtmpAckWindowSize{}: Go's zero value
NewRtmpAckWindowSize == [ack_window_size |-> 0, acked_size |-> 0]

ShouldAckRead(r, n) ==
    IF r.ack_window_size <= 0 THEN FALSE
    ELSE n - r.acked_size > r.ack_window_size

\* the state response_acknowledgement_message leaves: it writes nothing to the
\* socket and leaves the window as it is; it returns nil
response_acknowledgement_message(st) == st

\* st is the part of the protocol on_recv_message may touch
on_recv_message(st, msg) ==
    IF ShouldAckRead(st.inAckSize, st.recv_bytes)
    THEN response_acknowledgement_message(st)
    ELSE st

(***************************************************************************)
(* AMF0 (src/rtmp/amf0.go, lines 22-745).  A string is the sequence of its *)
(* bytes; a number is the sequence of the 8 bytes of its IEEE-754 bits,    *)
(* which is what Float64bits / Float64frombits convert to and from.  A     *)
(* stream that is written is the bytes written so far, the capacity of the *)
(* slice it was created on, and the error of the first write that did not  *)
(* fit; a stream that is read is (b, o) as above.                          *)
(***************************************************************************)
RTMP_AMF0_Number == 0
RTMP_AMF0_Boolean == 1
RTMP_AMF0_String == 2
RTMP_AMF0_Object == 3
RTMP_AMF0_Null == 5
RTMP_AMF0_Undefined == 6
RTMP_AMF0_EcmaArray == 8
RTMP_AMF0_ObjectEnd == 9

ERROR_RTMP_AMF0_DECODE == "ERROR_RTMP_AMF0_DECODE"
ERROR_RTMP_AMF0_ENCODE == "ERROR_RTMP_AMF0_ENCODE"
ERROR_RTMP_AMF0_INVALID == "ERROR_RTMP_AMF0_INVALID"
ERROR_GO_AMF0_NIL_PROPERTY == "ERROR_GO_AMF0_NIL_PROPERTY"
ERROR_RTMP_MESSAGE_DECODE == "ERROR_RTMP_MESSAGE_DECODE"
ERROR_RTMP_MESSAGE_ENCODE == "ERROR_RTMP_MESSAGE_ENCODE"

ReadUInt16(b, o) == b[o + 1] * 256 + b[o + 2]

\* the bytes WriteUInt24, WriteUInt32 and WriteUInt32Le write
U24(v) == <<(v \div 65536) % 256, (v \div 256) % 256, v % 256>>

U32(v) == <<(v \div 16777216) % 256, (v \div 65536) % 256, (v \div 256) % 256, v % 256>>

U32Le(v) == <<v % 256, (v \div 256) % 256, (v \div 65536) % 256, (v \div 16777216) % 256>>

U16(v) == <<(v \div 256) % 256, v % 256>>

\* RtmpHPBuffer.Empty
Empty(b, o) == BufLen(b, o) <= 0

\* NewRtmpStream(make([]byte, n)) as a stream to write
NewRtmpStream(n) == [bytes |-> <<>>, cap |-> n, err |-> NoError]

\* if !stream.Requires(len(bs)) { err = e; return }; stream.Write(bs)
Put(s, bs, e) ==
    IF s.err # NoError THEN s
    ELSE IF s.cap - Len(s.bytes) < Len(bs) THEN [s EXCEPT !.err = e]
    ELSE [s EXCEPT !.bytes = @ \o bs]

\* RtmpAmf0Any{Marker, Value}; Value is an interface: Nil or Ptr(x)
Amf0Any(marker, value) == [Marker |-> marker, Value |-> value]

ToAmf0Boolean(v) == Amf0Any(RTMP_AMF0_Boolean, Ptr(v))
ToAmf0String(v) == Amf0Any(RTMP_AMF0_String, Ptr(v))
ToAmf0Number(v) == Amf0Any(RTMP_AMF0_Number, Ptr(v))
ToAmf0Object(v) == Amf0Any(RTMP_AMF0_Object, Ptr(v))
ToAmf0EcmaArray(v) == Amf0Any(RTMP_AMF0_EcmaArray, Ptr(v))
ToAmf0Null == Amf0Any(RTMP_AMF0_Null, Nil)
Amf0Undefined == Amf0Any(RTMP_AMF0_Undefined, Nil)

IsNil(a) == a.Value = Nil
IsObjectEof(a) == a.Marker = RTMP_AMF0_ObjectEnd

NewRtmpAmf0UnSortedHashtable ==
    [property_index |-> <<>>, properties |-> [k \in {} |-> ToAmf0Null]]

NewRtmpAmf0Object ==
    [marker |-> RTMP_AMF0_Object, properties |-> NewRtmpAmf0UnSortedHashtable]

NewRtmpAmf0EcmaArray ==
    [marker |-> RTMP_AMF0_EcmaArray, count |-> 0,
     properties |-> NewRtmpAmf0UnSortedHashtable]

HashtableCount(h) == Cardinality(DOMAIN h.properties)

\* a Set that appends the name on every call
HashtableSet_AppendAlways(h, k, p) ==
    IF p = Nil THEN [err |-> ERROR_GO_AMF0_NIL_PROPERTY, h |-> h]
    ELSE [err |-> NoError,
          h |-> [property_index |-> Append(h.property_index, k),
                 properties |-> [n \in DOMAIN h.properties \cup {k} |->
                                    IF n = k THEN Deref(p) ELSE h.properties[n]]]]

\* RtmpAmf0UnSortedHashtable.Set(k, v); p is the pointer v
HashtableSet(h, k, p) ==
    IF p = Nil THEN [err |-> ERROR_GO_AMF0_NIL_PROPERTY, h |-> h]
    ELSE [err |-> NoError,
          h |-> [property_index |-> IF k \in DOMAIN h.properties THEN h.property_index
                                    ELSE Append(h.property_index, k),
                 properties |-> [n \in DOMAIN h.properties \cup {k} |->
                                    IF n = k THEN Deref(p) ELSE h.properties[n]]]]

ObjectSet(obj, k, p) ==
    LET r == HashtableSet(obj.properties, k, p)
    IN  [err |-> r.err, v |-> [obj EXCEPT !.properties = r.h]]

EcmaArraySet(arr, k, p) ==
    LET r == HashtableSet(arr.properties, k, p)
    IN  [err |-> r.err,
         v |-> [arr EXCEPT !.properties = r.h, !.count = HashtableCount(r.h)]]

RtmpAmf0SizeUtf8(v) == 2 + Len(v)
RtmpAmf0SizeString(v) == 1 + RtmpAmf0SizeUtf8(v)
RtmpAmf0SizeNumber == 1 + 8
RtmpAmf0SizeNullOrUndefined == 1
RtmpAmf0SizeBoolean == 1 + 1
RtmpAmf0SizeObjectEOF == 2 + 1

RECURSIVE AnySize(_)
RECURSIVE HashtableSizeOver(_, _)
\* for k, v := range r.properties { n += RtmpAmf0SizeUtf8(k); n += v.Size() }
HashtableSizeOver(h, keys) ==
    IF keys = {} THEN 0
    ELSE LET k == CHOOSE n \in keys : TRUE
         IN  RtmpAmf0SizeUtf8(k) + AnySize(h.properties[k])
                + HashtableSizeOver(h, keys \ {k})

HashtableSize(h) ==
    IF HashtableCount(h) <= 0 THEN 0 ELSE HashtableSizeOver(h, DOMAIN h.properties)

ObjectSize(obj) ==
    LET n == HashtableSize(obj.properties)
    IN  IF n <= 0 THEN 0 ELSE n + 1 + RtmpAmf0SizeObjectEOF

EcmaArraySize(arr) ==
    LET n == HashtableSize(arr.properties)
    IN  IF n <= 0 THEN 0 ELSE n + 1 + 4 + RtmpAmf0SizeObjectEOF

AnySize(a) ==
    IF a.Marker = RTMP_AMF0_String THEN RtmpAmf0SizeString(Deref(a.Value))
    ELSE IF a.Marker = RTMP_AMF0_Boolean THEN RtmpAmf0SizeBoolean
    ELSE IF a.Marker = RTMP_AMF0_Number THEN RtmpAmf0SizeNumber
    ELSE IF a.Marker = RTMP_AMF0_Null \/ a.Marker = RTMP_AMF0_Undefined
    THEN RtmpAmf0SizeNullOrUndefined
    ELSE IF a.Marker = RTMP_AMF0_ObjectEnd THEN RtmpAmf0SizeObjectEOF
    ELSE IF a.Marker = RTMP_AMF0_Object THEN ObjectSize(Deref(a.Value))
    ELSE IF a.Marker = RTMP_AMF0_EcmaArray THEN EcmaArraySize(Deref(a.Value))
    ELSE 0

WriteUtf8(s, v) ==
    LET s1 == Put(s, U16(Len(v)), ERROR_RTMP_AMF0_ENCODE)
    IN  IF Len(v) <= 0 THEN s1 ELSE Put(s1, v, ERROR_RTMP_AMF0_ENCODE)

WriteString(s, v) ==
    WriteUtf8(Put(s, <<RTMP_AMF0_String>>, ERROR_RTMP_AMF0_ENCODE), v)

WriteBoolean(s, v) ==
    Put(Put(s, <<RTMP_AMF0_Boolean>>, ERROR_RTMP_AMF0_ENCODE),
        IF v THEN <<1>> ELSE <<0>>, ERROR_RTMP_AMF0_ENCODE)

WriteNumber(s, v) ==
    Put(Put(s, <<RTMP_AMF0_Number>>, ERROR_RTMP_AMF0_ENCODE), v, ERROR_RTMP_AMF0_ENCODE)

WriteNull(s) == Put(s, <<RTMP_AMF0_Null>>, ERROR_RTMP_AMF0_ENCODE)

WriteUndefined(s) == Put(s, <<RTMP_AMF0_Undefined>>, ERROR_RTMP_AMF0_ENCODE)

WriteObjectEOF(s) ==
    Put(Put(s, U16(0), ERROR_RTMP_AMF0_ENCODE), <<RTMP_AMF0_ObjectEnd>>,
        ERROR_RTMP_AMF0_ENCODE)

RECURSIVE AnyWrite(_, _)
RECURSIVE HashtableWriteFrom(_, _, _)
\* for _, k := range r.property_index, from the i-th name on
HashtableWriteFrom(h, s, i) ==
    IF i > Len(h.property_index) \/ s.err # NoError THEN s
    ELSE LET k == h.property_index[i]
         IN  HashtableWriteFrom(h, AnyWrite(h.properties[k], WriteUtf8(s, k)), i + 1)

HashtableWrite(h, s) == HashtableWriteFrom(h, s, 1)

ObjectWrite(obj, s) ==
    WriteObjectEOF(HashtableWrite(obj.properties,
        Put(s, <<RTMP_AMF0_Object>>, ERROR_RTMP_AMF0_ENCODE)))

EcmaArrayWrite(arr, s) ==
    WriteObjectEOF(HashtableWrite(arr.properties,
        Put(Put(s, <<RTMP_AMF0_EcmaArray>>, ERROR_RTMP_AMF0_ENCODE),
            U32(arr.count), ERROR_RTMP_AMF0_ENCODE)))

AnyWrite(a, s) ==
    IF a.Marker = RTMP_AMF0_String THEN WriteString(s, Deref(a.Value))
    ELSE IF a.Marker = RTMP_AMF0_Boolean THEN WriteBoolean(s, Deref(a.Value))
    ELSE IF a.Marker = RTMP_AMF0_Number THEN WriteNumber(s, Deref(a.Value))
    ELSE IF a.Marker = RTMP_AMF0_Null THEN WriteNull(s)
    ELSE IF a.Marker = RTMP_AMF0_Undefined THEN WriteUndefined(s)
    ELSE IF a.Marker = RTMP_AMF0_ObjectEnd THEN WriteObjectEOF(s)
    ELSE IF a.Marker = RTMP_AMF0_Object THEN ObjectWrite(Deref(a.Value), s)
    ELSE IF a.Marker = RTMP_AMF0_EcmaArray THEN EcmaArrayWrite(Deref(a.Value), s)
    ELSE s

\* a Next that leaves the cursor where it is when n is negative
HPBufferNext_NoRewind(o, n) == IF n < 0 THEN o ELSE o + n

\* hp_buffer.go lines 65-73: the cursor after Next(n)
HPBufferNext(o, n) == o + n

\* the result of a read: the error, the cursor after it, and the value
Rd(e, o, v) == [err |-> e, off |-> o, v |-> v]

ReadUtf8(b, o) ==
    IF ~Buffered(b, o, 2) THEN Rd(ERROR_RTMP_AMF0_DECODE, o, <<>>)
    ELSE LET len == ReadUInt16(b, o)
         IN  IF len <= 0 THEN Rd(NoError, o + 2, <<>>)
             ELSE IF ~Buffered(b, o + 2, len) THEN Rd(ERROR_RTMP_AMF0_DECODE, o + 2, <<>>)
             ELSE Rd(NoError, o + 2 + len, ReadBytes(b, o + 2, len))

ReadString(b, o) ==
    IF ~Buffered(b, o, 1) THEN Rd(ERROR_RTMP_AMF0_DECODE, o, <<>>)
    ELSE IF ReadByte(b, o) # RTMP_AMF0_String THEN Rd(ERROR_RTMP_AMF0_DECODE, o + 1, <<>>)
    ELSE ReadUtf8(b, o + 1)

\* float64's zero value
Float64Zero == <<0, 0, 0, 0, 0, 0, 0, 0>>

ReadNumber(b, o) ==
    IF ~Buffered(b, o, 1) THEN Rd(ERROR_RTMP_AMF0_DECODE, o, Float64Zero)
    ELSE IF ReadByte(b, o) # RTMP_AMF0_Number
    THEN Rd(ERROR_RTMP_AMF0_DECODE, o + 1, Float64Zero)
    ELSE IF ~Buffered(b, o + 1, 8) THEN Rd(ERROR_RTMP_AMF0_DECODE, o + 1, Float64Zero)
    ELSE Rd(NoError, o + 9, ReadBytes(b, o + 1, 8))

ReadBoolean(b, o) ==
    IF ~Buffered(b, o, 1) THEN Rd(ERROR_RTMP_AMF0_DECODE, o, FALSE)
    ELSE IF ReadByte(b, o) # RTMP_AMF0_Boolean THEN Rd(ERROR_RTMP_AMF0_DECODE, o + 1, FALSE)
    ELSE IF ~Buffered(b, o + 1, 1) THEN Rd(ERROR_RTMP_AMF0_DECODE, o + 1, FALSE)
    ELSE Rd(NoError, o + 2, ReadByte(b, o + 1) # 0)

\* a loop that ends only at an empty name followed by the object-end marker
EndsProperties_EofOnly(name, value) == Len(name) <= 0 /\ IsObjectEof(value)

\* amf0.go lines 176, 276: the property ends the object
EndsProperties(name, value) == Len(name) <= 0 \/ IsNil(value) \/ IsObjectEof(value)

RECURSIVE AnyRead(_, _)
RECURSIVE ReadProperties(_, _, _, _)
\* the loop of Object.Read and EcmaArray.Read; set is "object" or "array"
ReadProperties(v, set, b, o) ==
    IF Empty(b, o) THEN Rd(NoError, o, v)
    ELSE LET name == ReadUtf8(b, o)
         IN  IF name.err # NoError THEN Rd(name.err, name.off, v)
             ELSE LET value == AnyRead(b, name.off)
                  IN  IF value.err # NoError THEN Rd(value.err, value.off, v)
                      ELSE IF EndsProperties(name.v, value.v) THEN Rd(NoError, value.off, v)
                      ELSE LET r == IF set = "object"
                                    THEN ObjectSet(v, name.v, Ptr(value.v))
                                    ELSE EcmaArraySet(v, name.v, Ptr(value.v))
                           IN  IF r.err # NoError THEN Rd(r.err, value.off, r.v)
                               ELSE ReadProperties(r.v, set, b, value.off)

ObjectRead(obj, b, o) ==
    IF ~Buffered(b, o, 1) THEN Rd(ERROR_RTMP_AMF0_DECODE, o, obj)
    ELSE LET o1 == [obj EXCEPT !.marker = ReadByte(b, o)]
         IN  IF o1.marker # RTMP_AMF0_Object THEN Rd(ERROR_RTMP_AMF0_DECODE, o + 1, o1)
             ELSE ReadProperties(o1, "object", b, o + 1)

EcmaArrayRead(arr, b, o) ==
    IF ~Buffered(b, o, 1) THEN Rd(ERROR_RTMP_AMF0_DECODE, o, arr)
    ELSE LET a1 == [arr EXCEPT !.marker = ReadByte(b, o)]
         IN  IF a1.marker # RTMP_AMF0_EcmaArray THEN Rd(ERROR_RTMP_AMF0_DECODE, o + 1, a1)
             ELSE IF ~Buffered(b, o + 1, 4) THEN Rd(ERROR_RTMP_AMF0_DECODE, o + 1, a1)
             ELSE ReadProperties([a1 EXCEPT !.count = ReadUInt32(b, o + 1)], "array",
                                 b, o + 5)

ReadObject(b, o) == ObjectRead(NewRtmpAmf0Object, b, o)

ReadEcmaArray(b, o) == EcmaArrayRead(NewRtmpAmf0EcmaArray, b, o)

\* Any.Read on a zero RtmpAmf0Any: the marker is read and the cursor moved back
\* by Next(-1) (amf0.go lines 413-414), then the value is read from its marker
AnyRead(b, o) ==
    IF ~Buffered(b, o, 1) THEN Rd(ERROR_RTMP_AMF0_DECODE, o, Amf0Any(0, Nil))
    ELSE LET m == ReadByte(b, o)
             o0 == HPBufferNext(o + 1, -1)
             wrap(r) == Rd(r.err, r.off, Amf0Any(m, Ptr(r.v)))
         IN  IF m = RTMP_AMF0_String THEN wrap(ReadString(b, o0))
             ELSE IF m = RTMP_AMF0_Boolean THEN wrap(ReadBoolean(b, o0))
             ELSE IF m = RTMP_AMF0_Number THEN wrap(ReadNumber(b, o0))
             ELSE IF m = RTMP_AMF0_Null \/ m = RTMP_AMF0_Undefined \/ m = RTMP_AMF0_ObjectEnd
             THEN Rd(NoError, HPBufferNext(o0, 1), Amf0Any(m, Nil))
             ELSE IF m = RTMP_AMF0_Object THEN wrap(ReadObject(b, o0))
             ELSE IF m = RTMP_AMF0_EcmaArray THEN wrap(ReadEcmaArray(b, o0))
             ELSE Rd(ERROR_RTMP_AMF0_INVALID, o0, Amf0Any(m, Nil))

(***************************************************************************)
(* The application's use of the AMF0 codec: it makes a value, sets         *)
(* properties of a container, writes the value to a stream and reads the   *)
(* written bytes back.                                                     *)
(***************************************************************************)
\* the size of a stream that holds every value of the model
StreamSize == 512

\* a value the application made: the Set calls that succeeded on it, the
\* last Set call and its error, the stream it was written to and what was
\* read back
Amf0Of(v) ==
    [v |-> v, sets |-> <<>>, call |-> Nil, err |-> NoError, out |-> Nil, back |-> Nil]

IsContainer(a) == a.Marker = RTMP_AMF0_Object \/ a.Marker = RTMP_AMF0_EcmaArray

\* the values ToAmf0 is called with
Amf0Values ==
    {ToAmf0Number(<<63, 240, 0, 0, 0, 0, 0, 0>>), ToAmf0Boolean(TRUE), ToAmf0Boolean(FALSE),
     ToAmf0String(<<>>), ToAmf0String(<<120, 121>>), ToAmf0Null, Amf0Undefined,
     ToAmf0Object(NewRtmpAmf0Object), ToAmf0EcmaArray(NewRtmpAmf0EcmaArray)}

\* the property values Set is called with on the container a: numbers, Null,
\* Undefined, a copy of the container as it is, an empty container of the
\* other kind, and the nil pointer
PropertyValues(a) ==
    {Ptr(ToAmf0Number(<<63, 240, 0, 0, 0, 0, 0, 0>>)),
     Ptr(ToAmf0Number(<<64, 0, 0, 0, 0, 0, 0, 0>>)),
     Ptr(ToAmf0Null), Ptr(Amf0Undefined), Ptr(a),
     Ptr(IF a.Marker = RTMP_AMF0_Object THEN ToAmf0EcmaArray(NewRtmpAmf0EcmaArray)
         ELSE ToAmf0Object(NewRtmpAmf0Object)),
     Nil}

PropertyNames == {<<97>>, <<98>>}

ToAmf0(v) ==
    /\ amf0' = Amf0Of(v)
    /\ UNCHANGED <<buf, off, recv_bytes, send_bytes, chunkStreams, inChunkSize,
                   outChunkSize, inAckSize, err, delivered, parts, accepted, announced,
                   last, expect, handshake, peer, clock, later>>

\* Object.Set or EcmaArray.Set on the value
Amf0Set(k, p) ==
    /\ IsContainer(amf0.v)
    /\ Len(amf0.sets) < MaxSets
    /\ LET r == IF amf0.v.Marker = RTMP_AMF0_Object
                THEN ObjectSet(Deref(amf0.v.Value), k, p)
                ELSE EcmaArraySet(Deref(amf0.v.Value), k, p)
       IN  amf0' = [v |-> Amf0Any(amf0.v.Marker, Ptr(r.v)),
                    sets |-> IF r.err = NoError
                             THEN Append(amf0.sets, [k |-> k, v |-> Deref(p)])
                             ELSE amf0.sets,
                    call |-> Ptr([k |-> k, p |-> p]),
                    err |-> r.err, out |-> Nil, back |-> Nil]
    /\ UNCHANGED <<buf, off, recv_bytes, send_bytes, chunkStreams, inChunkSize,
                   outChunkSize, inAckSize, err, delivered, parts, accepted, announced,
                   last, expect, handshake, peer, clock, later>>

\* Any.Write into a stream of Size() bytes, or into a large one
Amf0Write(large) ==
    /\ amf0.out = Nil
    /\ amf0' = [amf0 EXCEPT !.out = Ptr(AnyWrite(amf0.v,
                    NewRtmpStream(IF large THEN StreamSize ELSE AnySize(amf0.v))))]
    /\ UNCHANGED <<buf, off, recv_bytes, send_bytes, chunkStreams, inChunkSize,
                   outChunkSize, inAckSize, err, delivered, parts, accepted, announced,
                   last, expect, handshake, peer, clock, later>>

\* Any.Read of the bytes written
Amf0Read ==
    /\ amf0.out # Nil
    /\ amf0.back = Nil
    /\ Deref(amf0.out).err = NoError
    /\ amf0' = [amf0 EXCEPT !.back = Ptr(AnyRead(Deref(amf0.out).bytes, 0))]
    /\ UNCHANGED <<buf, off, recv_bytes, send_bytes, chunkStreams, inChunkSize,
                   outChunkSize, inAckSize, err, delivered, parts, accepted, announced,
                   last, expect, handshake, peer, clock, later>>

NextAmf0 ==
    \/ \E v \in Amf0Values : ToAmf0(v)
    \/ \E k \in PropertyNames, p \in PropertyValues(amf0.v) : Amf0Set(k, p)
    \/ \E large \in BOOLEAN : Amf0Write(large)
    \/ Amf0Read

(***************************************************************************)
(* SimpleHandshake (src/unnamed/part_000 lines 29-52) against a client     *)
(* that connects, sends its bytes in segments and may close at any time.   *)
(* The call blocks in its two reads and in its write: each is a step.      *)
(***************************************************************************)
C0C1Size == 1537
S0S1S2Size == 3073
C2Size == 1536

\* the RTMP version byte
RTMP_VERSION == 3

io_EOF == "io.EOF"
io_ErrUnexpectedEOF == "io.ErrUnexpectedEOF"
WriteError == "write: broken pipe"

\* make([]byte, n)
MakeZero(n) == [i \in 1..n |-> 0]

\* copy(dst[0:n], src)
Copy(dst, n, src) ==
    [i \in 1..Len(dst) |-> IF i <= n /\ i <= Len(src) THEN src[i] ELSE dst[i]]

\* the i-th byte the client sends: C0, then C1 and C2 made from its seed
ClientByte(c, i) ==
    IF i = 1 THEN c.c0
    ELSE IF i <= C0C1Size THEN (c.seed + i) % 256
    ELSE (c.seed + 3 * i) % 256

ClientBytes(c, from, n) == [i \in 1..n |-> ClientByte(c, from + i)]

ClientC1(c) == ClientBytes(c, 1, C0C1Size - 1)

\* no connection yet
Handshake0 ==
    [pc |-> "accept", err |-> NoError, c0c1 |-> <<>>, s0s1s2 |-> <<>>, c2 |-> <<>>,
     read |-> 0,
     client |-> [c0 |-> 0, seed |-> 0, sent |-> 0, closed |-> FALSE]]

ClientSegments == {512, 1025, 1536}

\* a read that is content with the bytes that came
ReadFull_Partial(h, n) ==
    IF h.client.sent - h.read > 0 THEN NoError ELSE io_EOF

\* io.ReadFull(conn, make([]byte, n)): the error, given what the client has
\* sent beyond the bytes read; it returns when n bytes came or the client closed
ReadFull(h, n) ==
    IF h.client.sent - h.read >= n THEN NoError
    ELSE IF h.client.sent - h.read = 0 THEN io_EOF
    ELSE io_ErrUnexpectedEOF

CanReturn(h, n) == h.client.sent - h.read >= n \/ h.client.closed

HandshakeUnchanged ==
    UNCHANGED <<buf, off, recv_bytes, send_bytes, chunkStreams, inChunkSize,
                outChunkSize, inAckSize, err, delivered, parts, accepted, announced,
                last, expect, amf0, peer, clock, later>>

\* the client connects with its version byte and its random seed
ClientConnect(c0, seed) ==
    /\ handshake.pc = "accept"
    /\ handshake' = [handshake EXCEPT !.pc = "c0c1", !.client.c0 = c0,
                                      !.client.seed = seed]
    /\ HandshakeUnchanged

ClientSend(n) ==
    /\ handshake.pc # "accept"
    /\ ~handshake.client.closed
    /\ handshake.client.sent + n <= MaxClientBytes
    /\ handshake' = [handshake EXCEPT !.client.sent = @ + n]
    /\ HandshakeUnchanged

ClientClose ==
    /\ handshake.pc # "accept"
    /\ ~handshake.client.closed
    /\ handshake' = [handshake EXCEPT !.client.closed = TRUE]
    /\ HandshakeUnchanged

\* part_000 lines 32-36
ReadC0C1 ==
    /\ handshake.pc = "c0c1"
    /\ CanReturn(handshake, C0C1Size)
    /\ LET e == ReadFull(handshake, C0C1Size)
       IN  handshake' =
             IF e # NoError THEN [handshake EXCEPT !.pc = "returned", !.err = e]
             ELSE [handshake EXCEPT !.pc = "s0s1s2", !.read = @ + C0C1Size,
                      !.c0c1 = ClientBytes(handshake.client, handshake.read, C0C1Size)]
    /\ HandshakeUnchanged

\* part_000 lines 38-39
S0S1S2(c0c1) == Copy(MakeZero(S0S1S2Size), C0C1Size, c0c1)

\* part_000 lines 38-43; the write may fail once the client has closed
WriteS0S1S2(ok) ==
    /\ handshake.pc = "s0s1s2"
    /\ ok \/ handshake.client.closed
    /\ handshake' =
          IF ok THEN [handshake EXCEPT !.pc = "c2", !.s0s1s2 = S0S1S2(handshake.c0c1)]
          ELSE [handshake EXCEPT !.pc = "returned", !.err = WriteError]
    /\ HandshakeUnchanged

\* part_000 lines 45-51
ReadC2 ==
    /\ handshake.pc = "c2"
    /\ CanReturn(handshake, C2Size)
    /\ LET e == ReadFull(handshake, C2Size)
       IN  handshake' =
             IF e # NoError THEN [handshake EXCEPT !.pc = "returned", !.err = e]
             ELSE [handshake EXCEPT !.pc = "returned", !.read = @ + C2Size,
                      !.c2 = ClientBytes(handshake.client, handshake.read, C2Size)]
    /\ HandshakeUnchanged

NextHandshake ==
    \/ \E c0 \in {RTMP_VERSION, 6, 0}, seed \in {1, 2} : ClientConnect(c0, seed)
    \/ \E n \in ClientSegments : ClientSend(n)
    \/ ClientClose
    \/ ReadC0C1
    \/ \E ok \in BOOLEAN : WriteS0S1S2(ok)
    \/ ReadC2

(***************************************************************************)
(* Packets (src/rtmp/messages.go) and the packet a message decodes to.     *)
(***************************************************************************)
\* "connect", "_result"
AMF0_COMMAND_CONNECT == <<99, 111, 110, 110, 101, 99, 116>>
AMF0_COMMAND_RESULT == <<95, 114, 101, 115, 117, 108, 116>>

\* float64(1.0) and float64(2.0)
Float64One == <<63, 240, 0, 0, 0, 0, 0, 0>>
Float64Two == <<64, 0, 0, 0, 0, 0, 0, 0>>

NewConnectAppPacket ==
    [type |-> "ConnectAppPacket", CommandName |-> <<>>, TransactionId |-> Float64One,
     CommandObject |-> Nil]

NewSetWindowAckSizePacket ==
    [type |-> "SetWindowAckSizePacket", AcknowledgementWindowSize |-> 0]

\* the result of a Decode: the error and the packet as far as it was filled
Dec(e, pkt) == [err |-> e, pkt |-> pkt]

ConnectAppPacketDecode(pkt, b, o) ==
    LET name == ReadString(b, o)
        p1 == [pkt EXCEPT !.CommandName = name.v]
    IN  IF name.err # NoError THEN Dec(name.err, p1)
        ELSE IF name.v # AMF0_COMMAND_CONNECT THEN Dec(ERROR_RTMP_AMF0_DECODE, p1)
        ELSE LET id == ReadNumber(b, name.off)
                 p2 == [p1 EXCEPT !.TransactionId = id.v]
             IN  IF id.err # NoError THEN Dec(id.err, p2)
                 ELSE IF id.v # Float64One THEN Dec(ERROR_RTMP_AMF0_DECODE, p2)
                 ELSE LET obj == ReadObject(b, id.off)
                      IN  Dec(obj.err, [p2 EXCEPT !.CommandObject = Ptr(obj.v)])

SetWindowAckSizePacketDecode(pkt, b, o) ==
    IF ~Buffered(b, o, 4) THEN Dec(ERROR_RTMP_MESSAGE_DECODE, pkt)
    ELSE Dec(NoError, [pkt EXCEPT !.AcknowledgementWindowSize = ReadUInt32(b, o)])

IsAmf0Command(h) == h.MessageType = RTMP_MSG_AMF0CommandMessage
IsAmf3Command(h) == h.MessageType = RTMP_MSG_AMF3CommandMessage
IsAmf0Data(h) == h.MessageType = RTMP_MSG_AMF0DataMessage
IsAmf3Data(h) == h.MessageType = RTMP_MSG_AMF3DataMessage
IsWindowAcknowledgementSize(h) == h.MessageType = RTMP_MSG_WindowAcknowledgementSize

\* a decoder for which a message that is no packet is an error
NoPacket_IsError(reset) ==
    [err |-> ERROR_RTMP_MESSAGE_DECODE, pkt |-> Nil, reset |-> reset]

\* messages.go lines 304, 346-350: pkt stays nil and nothing is decoded
NoPacket(reset) == [err |-> NoError, pkt |-> Nil, reset |-> reset]

\* messages.go lines 303-350 (protocol.go line 98 calls it ParseRtmpPacket):
\* the packet of a message, Nil for a message that is no packet the code knows,
\* and reset, the cursor lines 329-333 set before the packet is decoded (-1
\* when they are not reached, 0 for the stream of a message that is not AMF)
DecodePacket(header, payload) ==
    IF IsAmf0Command(header) \/ IsAmf3Command(header) \/ IsAmf0Data(header)
          \/ IsAmf3Data(header)
    THEN LET start == IF IsAmf3Command(header) /\ Buffered(payload, 0, 1) THEN 1 ELSE 0
             command == ReadString(payload, start)
             reset == IF IsAmf3Command(header) /\ Buffered(payload, command.off, 1)
                      THEN 1 ELSE 0
         IN  IF command.err # NoError
             THEN [err |-> command.err, pkt |-> Nil, reset |-> -1]
             ELSE IF command.v = AMF0_COMMAND_CONNECT
             THEN LET d == ConnectAppPacketDecode(NewConnectAppPacket, payload, reset)
                  IN  [err |-> d.err, pkt |-> Ptr(d.pkt), reset |-> reset]
             ELSE NoPacket(reset)
    ELSE IF IsWindowAcknowledgementSize(header)
    THEN LET d == SetWindowAckSizePacketDecode(NewSetWindowAckSizePacket, payload, 0)
         IN  [err |-> d.err, pkt |-> Ptr(d.pkt), reset |-> 0]
    ELSE NoPacket(0)

(***************************************************************************)
(* The peer.  It keeps, per chunk stream, the message it is sending, and   *)
(* frames every chunk as RTMP prescribes: the basic header, the message    *)
(* header of the chunk's format, then min(its chunk size, remaining)       *)
(* payload bytes.  Its choice of format, chunk stream and header fields is *)
(* free, so it also writes the chunk sequences the decoder must reject.    *)
(***************************************************************************)
PeerCids == {2, 3, 4}

BasicHeaderBytes(format, cid) ==
    IF cid < 64 THEN <<format * 64 + cid>>
    ELSE IF cid < 320 THEN <<format * 64, cid - 64>>
    ELSE <<format * 64 + 1, (cid - 64) % 256, (cid - 64) \div 256>>

\* the timestamp (or delta) c.ts goes into the 24-bit field when it is below
\* 0xFFFFFF; otherwise the field is 0xFFFFFF and the 4-byte extended timestamp
\* follows the header.  A format-3 chunk carries the extended timestamp when
\* c.ts is one, and no field when c.ts is 0.
MessageHeaderBytes(c) ==
    LET t24 == U24(Min(c.ts, RTMP_EXTENDED_TIMESTAMP))
        ext == IF c.ts >= RTMP_EXTENDED_TIMESTAMP THEN U32(c.ts) ELSE <<>>
    IN  IF c.fmt = 0 THEN t24 \o U24(c.len) \o <<c.mtype>> \o U32Le(c.sid) \o ext
        ELSE IF c.fmt = 1 THEN t24 \o U24(c.len) \o <<c.mtype>> \o ext
        ELSE IF c.fmt = 2 THEN t24 \o ext
        ELSE ext

\* the command messages of the peer: 1 is connect with transaction 1.0 and the
\* object {app: "live"}, 2 is _result, 3 is connect with transaction 2.0, 4 is
\* the command name connect and nothing after it
CommandPayload(val) ==
    LET app == ObjectSet(NewRtmpAmf0Object, <<97, 112, 112>>,
                         Ptr(ToAmf0String(<<108, 105, 118, 101>>))).v
        s == NewRtmpStream(64)
    IN  IF val = 1
        THEN ObjectWrite(app, WriteNumber(WriteString(s, AMF0_COMMAND_CONNECT),
                                          Float64One)).bytes
        ELSE IF val = 2
        THEN WriteNull(WriteNumber(WriteString(s, AMF0_COMMAND_RESULT), Float64One)).bytes
        ELSE IF val = 4
        THEN WriteString(s, AMF0_COMMAND_CONNECT).bytes
        ELSE ObjectWrite(app, WriteNumber(WriteString(s, AMF0_COMMAND_CONNECT),
                                          Float64Two)).bytes

IsControl(mtype) == mtype \in {RTMP_MSG_SetChunkSize, RTMP_MSG_WindowAcknowledgementSize}

\* an AMF3 command message is the byte 0 and the AMF0 encoding of the command
Amf3CommandPayload(val) == <<0>> \o CommandPayload(val)

\* the payload of the peer's id-th message: a control value, a command, or
\* bytes (below 128) that tell the messages and the positions in them apart
MessageData(id, len, mtype, val) ==
    IF IsControl(mtype) /\ len = 4 THEN U32(val)
    ELSE IF mtype \in {RTMP_MSG_AMF0CommandMessage, RTMP_MSG_AMF0DataMessage,
                       RTMP_MSG_AMF3DataMessage}
            /\ len = Len(CommandPayload(val))
    THEN CommandPayload(val)
    ELSE IF mtype = RTMP_MSG_AMF3CommandMessage /\ len = Len(Amf3CommandPayload(val))
    THEN Amf3CommandPayload(val)
    ELSE [j \in 1..len |-> (16 * id + j) % 128]

\* the payload of the message the peer's record p describes
PeerData(p) == MessageData(p.id, p.len, p.mtype, p.val)

\* ext is the extended timestamp in force on the chunk stream (0 for none),
\* ts0 the timestamp of the message if only its format-0 chunk set it (else
\* -1), rep tells that every format-3 chunk of the message repeated ext
PeerStream0 ==
    [used |-> FALSE, len |-> 0, mtype |-> 0, sent |-> 0, id |-> 0, val |-> 0,
     ext |-> 0, ts0 |-> -1, rep |-> TRUE]

Peer0 ==
    [cs |-> [c \in PeerCids |-> PeerStream0], chunkSize |-> RTMP_DEFAULT_CHUNK_SIZE,
     ackWindow |-> 0, nchunks |-> 0, nmsgs |-> 0, done |-> <<>>, bad |-> FALSE]

\* what the chunk c is on the peer's chunk stream p: the start of a message,
\* the continuation of the one it is sending, or a violation of the protocol
ChunkKind(p, c) ==
    IF c.fmt = 3 /\ c.ts # 0 /\ c.ts # p.ext THEN "bad"
    ELSE IF c.fmt = 3 /\ c.ts = 0 /\ p.ext = RTMP_EXTENDED_TIMESTAMP THEN "bad"
    ELSE IF p.sent < p.len
    THEN IF c.fmt # 0 /\ (c.fmt >= 2 \/ c.len = p.len) THEN "continue" ELSE "bad"
    ELSE IF c.fmt = 0 \/ p.used THEN "start" ELSE "bad"

\* the peer's chunk stream after the header of chunk c, before its payload
PeerHeader(pr, c) ==
    LET p == pr.cs[c.cid]
        kind == ChunkKind(p, c)
        len == IF c.fmt <= 1 THEN c.len ELSE p.len
        mtype == IF c.fmt <= 1 THEN c.mtype ELSE p.mtype
        ext == IF c.fmt = 3 THEN p.ext
               ELSE IF c.ts >= RTMP_EXTENDED_TIMESTAMP THEN c.ts ELSE 0
    IN  IF kind = "start"
        THEN [used |-> TRUE, len |-> len, mtype |-> mtype, sent |-> 0,
              id |-> pr.nmsgs + 1, val |-> c.val, ext |-> ext,
              ts0 |-> IF c.fmt = 0 THEN c.ts ELSE -1,
              rep |-> c.fmt # 3 \/ c.ts = p.ext]
        ELSE IF kind = "continue"
        THEN [p EXCEPT !.ext = ext,
                       !.ts0 = IF c.fmt = 3 THEN @ ELSE -1,
                       !.rep = @ /\ c.fmt = 3 /\ c.ts = p.ext]
        ELSE p

\* the number of payload bytes the peer puts into chunk c
PeerPayloadSize(pr, c) ==
    LET p == PeerHeader(pr, c)
    IN  IF ChunkKind(pr.cs[c.cid], c) = "bad" THEN 0
        ELSE Min(pr.chunkSize, p.len - p.sent)

\* the bytes of chunk c on the wire
PeerChunkBytes(pr, c) ==
    LET p == PeerHeader(pr, c)
        n == PeerPayloadSize(pr, c)
    IN  BasicHeaderBytes(c.fmt, c.cid) \o MessageHeaderBytes(c)
            \o SubSeq(PeerData(p), p.sent + 1, p.sent + n)

\* the peer after it wrote chunk c
PeerAfter(pr, c) ==
    LET kind == ChunkKind(pr.cs[c.cid], c)
        p == PeerHeader(pr, c)
        n == PeerPayloadSize(pr, c)
        q == [p EXCEPT !.sent = @ + n]
        complete == kind # "bad" /\ q.sent = q.len
    IN  [pr EXCEPT
            !.cs[c.cid] = q,
            !.nchunks = @ + 1,
            !.nmsgs = IF kind = "start" THEN @ + 1 ELSE @,
            !.bad = kind = "bad",
            !.done = IF complete
                     THEN Append(@, [cid |-> c.cid, len |-> q.len, mtype |-> q.mtype,
                                     id |-> q.id, val |-> q.val, ts0 |-> q.ts0,
                                     rep |-> q.rep])
                     ELSE @,
            !.chunkSize = IF complete /\ q.mtype = RTMP_MSG_SetChunkSize /\ q.len = 4
                          THEN c.val ELSE @,
            !.ackWindow = IF complete /\ q.mtype = RTMP_MSG_WindowAcknowledgementSize
                             /\ q.len = 4
                          THEN c.val ELSE @]

\* the chunks the peer chooses from: media messages on two chunk streams
MediaLengths == {0, 3, 130, 300}

ChunkInput(format, cid, ts, len, mtype, val) ==
    [fmt |-> format, cid |-> cid, ts |-> ts, len |-> len, mtype |-> mtype, sid |-> 1,
     val |-> val]

MediaChunks ==
    {ChunkInput(f, cid, 26, len, RTMP_MSG_AudioMessage, 0) :
        f \in {0, 1}, cid \in {3, 4}, len \in MediaLengths}
    \cup {ChunkInput(f, cid, 26, 0, 0, 0) : f \in {2}, cid \in {3, 4}}
    \cup {ChunkInput(f, cid, 0, 0, 0, 0) : f \in {3}, cid \in {3, 4}}

\* what the peer has sent on a chunk stream: base is the timestamp of its last
\* format-0 chunk, deltas the sum of the deltas of its format-1 and format-2
\* chunks since, field the last timestamp or delta it sent, and replays the
\* sum of the values field had at each format-3 chunk that started a message
Clock0 == [c \in PeerCids |-> [base |-> 0, deltas |-> 0, replays |-> 0, field |-> 0]]

ClockAfter(cl, pr, c) ==
    LET kind == ChunkKind(pr.cs[c.cid], c)
    IN  IF kind = "bad" THEN cl
        ELSE IF c.fmt = 0
        THEN [cl EXCEPT ![c.cid] = [base |-> c.ts, deltas |-> 0, replays |-> 0,
                                    field |-> c.ts]]
        ELSE IF c.fmt \in {1, 2}
        THEN [cl EXCEPT ![c.cid].deltas = @ + c.ts, ![c.cid].field = c.ts]
        ELSE IF kind = "start"
        THEN [cl EXCEPT ![c.cid].replays = @ + cl[c.cid].field]
        ELSE cl

(***************************************************************************)
(* The state after NewRtmpProtocol.                                        *)
(***************************************************************************)
\* no EnsureBufferBytes call yet, a socket with nothing to read.  transit are
\* the bytes the socket holds for the next Read calls and failure the error
\* it has met; received (the number of bytes it ever received), calls, reads and
\* failed (the Read calls of the current EnsureBufferBytes call, and those that
\* returned an error) are history.
\* no stream is under the decoder
Stream0 == [bytes |-> <<>>, off |-> 0, before |-> 0, op |-> "none", err |-> NoError]

\* nothing was sent
Out0 == [sent |-> <<>>, chunks |-> <<>>, pc |-> "idle", left |-> 0]

Ensure0 ==
    [pc |-> "idle", n |-> 0, err |-> NoError, transit |-> <<>>, failure |-> NoError,
     received |-> 0, deliveries |-> 0, calls |-> 0, reads |-> 0, failed |-> 0]

Last0 ==
    [format |-> 0, cid |-> 0, err |-> NoError, payload_size |-> 0, MsgCount |-> 0,
     partial |-> FALSE, allocated |-> 0, received |-> 0, length |-> 0, first |-> FALSE,
     emitted |-> FALSE, returned |-> FALSE, msg |-> Nil, calls |-> 0,
     recv_bytes |-> 0, acked_size |-> 0, wrote |-> FALSE,
     window |-> 0, chunk_size |-> RTMP_DEFAULT_CHUNK_SIZE,
     header |-> HeaderTrace(NewRtmpChunkStream(0), 0, <<>>, 0)]

\* the chunk size and the ACK window the peer has set with the control
\* messages returned so far; a fresh connection has 128 and no window
Announced0 == [chunkSize |-> RTMP_DEFAULT_CHUNK_SIZE, ackWindow |-> 0]

\* the announcements after message m was returned (RTMP 5.1, 5.5: a 4-byte
\* big-endian value; a chunk size is valid from 1 on)
AnnouncedAfter(a, m) ==
    IF Len(m.Payload) # 4 THEN a
    ELSE IF m.Header.MessageType = RTMP_MSG_SetChunkSize /\ ReadUInt32(m.Payload, 0) >= 1
    THEN [a EXCEPT !.chunkSize = ReadUInt32(m.Payload, 0)]
    ELSE IF m.Header.MessageType = RTMP_MSG_WindowAcknowledgementSize
    THEN [a EXCEPT !.ackWindow = ReadUInt32(m.Payload, 0)]
    ELSE a

\* no ExpectMessage call yet; call and reset are history: the receive call
\* whose message was decoded last, and the reset DecodePacket did on it
Expect0 ==
    [state |-> "idle", P |-> "", err |-> NoError, msg |-> Nil, pkt |-> Nil, from |-> 0,
     call |-> 0, reset |-> -1]

Init ==
    /\ buf = <<>>
    /\ off = 0
    /\ recv_bytes = 0
    /\ send_bytes = 0
    /\ chunkStreams = [c \in {} |-> NewRtmpChunkStream(c)]
    /\ inChunkSize = RTMP_DEFAULT_CHUNK_SIZE
    /\ outChunkSize = RTMP_DEFAULT_CHUNK_SIZE
    /\ inAckSize = NewRtmpAckWindowSize
    /\ err = NoError
    /\ delivered = <<>>
    /\ parts = [c \in PeerCids |-> <<>>]
    /\ accepted = {}
    /\ announced = Announced0
    /\ last = Last0
    /\ expect = Expect0
    /\ amf0 = Amf0Of(ToAmf0Null)
    /\ handshake = Handshake0
    /\ peer = Peer0
    /\ clock = Clock0
    /\ wire = <<>>
    /\ live = [ready |-> FALSE, turns |-> 0]
    /\ ensure = Ensure0
    /\ stream = Stream0
    /\ out = Out0

(***************************************************************************)
(* The peer writes chunk c while the server waits in EnsureBufferBytes:    *)
(* the socket read returns the bytes (a chunk is shorter than              *)
(* RTMP_SOCKET_READ_SIZE), the socket counts them and the buffer appends   *)
(* them.                                                                   *)
(***************************************************************************)
HPBufferAppend(b, bytes) == b \o bytes

SocketRead(count, bytes) == count + Len(bytes)

PeerSendTurn(c) ==
    /\ err = NoError
    /\ ~peer.bad
    /\ peer.nchunks < MaxChunks
    /\ recv_interlaced_message(chunkStreams, inChunkSize, buf, off).blocked
    /\ \E bytes \in {PeerChunkBytes(peer, c)} :
           /\ Len(bytes) <= RTMP_SOCKET_READ_SIZE
           /\ buf' = HPBufferAppend(buf, bytes)
           /\ recv_bytes' = SocketRead(recv_bytes, bytes)
    /\ peer' = PeerAfter(peer, c)
    /\ UNCHANGED <<off, send_bytes, chunkStreams, inChunkSize, outChunkSize, inAckSize,
                   err, delivered, parts, accepted, announced, last>>

PeerSend(c) == PeerSendTurn(c) /\ UNCHANGED beside

\* the same, with the history of the timestamps kept
PeerSendTimed(c) ==
    /\ PeerSendTurn(c)
    /\ clock' = ClockAfter(clock, peer, c)
    /\ UNCHANGED <<expect, amf0, handshake, later>>

(***************************************************************************)
(* One turn of the loop of RecvMessage: recv_interlaced_message on the     *)
(* buffered bytes, then the tests of lines 49-55 and on_recv_message.  The *)
(* call returns when err is set or a message is appended to delivered.     *)
(***************************************************************************)
\* a loop that skips no message
IsEmptyMessage_Never(m) == FALSE

\* protocol.go line 53: the message is skipped
IsEmptyMessage(m) == m.ReceivedPayloadLength <= 0 \/ m.Header.PayloadLength <= 0

ProtocolState == [inAckSize |-> inAckSize, inChunkSize |-> inChunkSize,
                  recv_bytes |-> recv_bytes, send_bytes |-> send_bytes]

RecvMessageTurn ==
    /\ err = NoError
    /\ \E r \in {recv_interlaced_message(chunkStreams, inChunkSize, buf, off)} :
       LET chunk0 == GetChunkStream(chunkStreams, r.cid)
           returns == r.err = NoError /\ r.msg # Nil /\ ~IsEmptyMessage(Deref(r.msg))
           st == IF returns THEN on_recv_message(ProtocolState, Deref(r.msg))
                 ELSE ProtocolState
           chunks == IF r.cid \in DOMAIN parts
                     THEN Append(parts[r.cid],
                              [format |-> r.format, from |-> r.off - r.payload_size,
                               size |-> r.payload_size])
                     ELSE <<>>
       IN  /\ ~r.blocked
           /\ chunkStreams' = r.chunkStreams
           /\ off' = r.off
           /\ err' = r.err
           /\ inAckSize' = st.inAckSize
           /\ inChunkSize' = st.inChunkSize
           /\ send_bytes' = st.send_bytes
           /\ delivered' = IF returns
                           THEN Append(delivered,
                                    [cid |-> r.cid, header |-> Deref(r.msg).Header,
                                     chunks |-> chunks, call |-> last.calls + 1])
                           ELSE delivered
           /\ parts' = IF r.cid \in DOMAIN parts /\ r.err = NoError
                       THEN [parts EXCEPT ![r.cid] = IF r.msg # Nil THEN <<>> ELSE chunks]
                       ELSE parts
           /\ accepted' = IF r.err = NoError THEN accepted \cup {r.cid} ELSE accepted
           /\ announced' = IF returns THEN AnnouncedAfter(announced, Deref(r.msg))
                           ELSE announced
           /\ last' = [format |-> r.format, cid |-> r.cid, err |-> r.err,
                       payload_size |-> r.payload_size, MsgCount |-> chunk0.MsgCount,
                       partial |-> chunk0.Msg # Nil,
                       allocated |-> IF chunk0.Msg # Nil THEN Len(Deref(chunk0.Msg).Payload)
                                     ELSE 0,
                       received |-> IF chunk0.Msg # Nil
                                    THEN Deref(chunk0.Msg).ReceivedPayloadLength ELSE 0,
                       length |-> r.chunkStreams[r.cid].Header.PayloadLength,
                       first |-> r.cid \notin accepted,
                       emitted |-> r.msg # Nil, returned |-> returns,
                       msg |-> IF r.err = NoError THEN r.msg ELSE Nil,
                       calls |-> last.calls + 1,
                       recv_bytes |-> recv_bytes, acked_size |-> inAckSize.acked_size,
                       wrote |-> st.send_bytes # send_bytes,
                       window |-> announced.ackWindow,
                       chunk_size |-> announced.chunkSize,
                       header |-> IF r.err = NoError
                                  THEN HeaderTrace(chunk0, r.format, buf,
                                                   read_basic_header(buf, off).off)
                                  ELSE Last0.header]
    /\ UNCHANGED <<buf, recv_bytes, outChunkSize, peer>>

\* RecvMessage called by the application itself
RecvMessage == RecvMessageTurn /\ UNCHANGED beside

Next == (\E c \in MediaChunks : PeerSend(c)) \/ RecvMessage

Spec == Init /\ [][Next]_vars

(***************************************************************************)
(* The same connection with a peer that also sends the control messages    *)
(* SetChunkSize and WindowAcknowledgementSize on chunk stream 2, and, once *)
(* it has set its chunk size, cuts its messages into chunks of that size.  *)
(***************************************************************************)
ControlChunks ==
    {ChunkInput(0, 2, 0, 4, RTMP_MSG_SetChunkSize, n) : n \in {64}}
    \cup {ChunkInput(0, 2, 0, 4, RTMP_MSG_WindowAcknowledgementSize, w) : w \in {100}}
    \cup {ChunkInput(0, 4, 26, len, RTMP_MSG_AudioMessage, 0) : len \in {3, 130}}
    \cup {ChunkInput(3, 4, 0, 0, 0, 0)}

NextControl == (\E c \in ControlChunks : PeerSend(c)) \/ RecvMessage

SpecControl == Init /\ [][NextControl]_vars

(***************************************************************************)
(* The same connection with a peer whose timestamps reach 0xFFFFFF and     *)
(* more: it sends the extended timestamp after its format-0 headers, and   *)
(* after the basic header of its format-3 chunks it repeats the field or,  *)
(* as some encoders do, leaves it out.                                     *)
(***************************************************************************)
ExtendedTimestamps == {RTMP_EXTENDED_TIMESTAMP, 16777221}

ExtendedChunks ==
    {ChunkInput(0, cid, ts, len, RTMP_MSG_VideoMessage, 0) :
        cid \in {3, 4}, ts \in ExtendedTimestamps \cup {26}, len \in {3, 130}}
    \cup {ChunkInput(3, cid, ts, 0, 0, 0) : cid \in {3, 4}, ts \in ExtendedTimestamps \cup {0}}

NextExtended == (\E c \in ExtendedChunks : PeerSend(c)) \/ RecvMessage

SpecExtended == Init /\ [][NextExtended]_vars

(***************************************************************************)
(* The same connection with a peer that sends one extended timestamp on     *)
(* its format-0 chunk and then cuts the message into format-3 chunks with   *)
(* or without the field.  One of its timestamps is the number that the     *)
(* first 4 payload bytes of the second chunk of its first message spell.    *)
(***************************************************************************)
\* the length of a message whose second chunk carries 4 bytes
TwoChunkLength == RTMP_DEFAULT_CHUNK_SIZE + 4

CollidingTimestamp ==
    ReadUInt32(MessageData(1, TwoChunkLength, RTMP_MSG_VideoMessage, 0),
               RTMP_DEFAULT_CHUNK_SIZE)

OmittedTimestamps == {16777221, CollidingTimestamp}

OmittedChunks ==
    {ChunkInput(0, cid, ts, len, RTMP_MSG_VideoMessage, 0) :
        cid \in {3, 4}, ts \in OmittedTimestamps, len \in {3, TwoChunkLength}}
    \cup {ChunkInput(3, cid, ts, 0, 0, 0) : cid \in {3, 4}, ts \in OmittedTimestamps \cup {0}}

\* the message d of several chunks, the later ones without the field, whose
\* payload after the first chunk starts with the 4 bytes of its timestamp
Collides(d) ==
    /\ d.len > RTMP_DEFAULT_CHUNK_SIZE
    /\ ~d.rep
    /\ d.ts0 = ReadUInt32(PeerData(d) \o <<0, 0, 0>>, RTMP_DEFAULT_CHUNK_SIZE)

\* the peer has written such a message; what it writes after it is not followed
OutOfStep == \E i \in 1..Len(peer.done) : Collides(peer.done[i])

NextOmitted == (\E c \in OmittedChunks : ~OutOfStep /\ PeerSend(c)) \/ RecvMessage

SpecOmitted == Init /\ [][NextOmitted]_vars

(***************************************************************************)
(* The same connection with a peer that uses every header format with      *)
(* several timestamps, lengths, message types and stream ids, and of which *)
(* the history of the timestamps is kept.                                  *)
(***************************************************************************)
HeaderChunks ==
    {[ChunkInput(0, 3, 26, 3, RTMP_MSG_AudioMessage, 0) EXCEPT !.sid = 1],
     [ChunkInput(0, 3, 40, 130, RTMP_MSG_VideoMessage, 0) EXCEPT !.sid = 2],
     [ChunkInput(0, 4, 26, 3, RTMP_MSG_AudioMessage, 0) EXCEPT !.sid = 1],
     ChunkInput(1, 3, 26, 130, RTMP_MSG_VideoMessage, 0),
     ChunkInput(1, 3, 40, 3, RTMP_MSG_AudioMessage, 0),
     ChunkInput(2, 3, 26, 0, 0, 0),
     ChunkInput(2, 3, 40, 0, 0, 0),
     ChunkInput(3, 3, 0, 0, 0, 0)}

NextHeaders == (\E c \in HeaderChunks : PeerSendTimed(c)) \/ RecvMessage

SpecHeaders == Init /\ [][NextHeaders]_vars

(***************************************************************************)
(* The same connection with a peer whose timestamps and deltas are below,  *)
(* at and above 0xFFFFFF in the formats 0, 1 and 2 on one chunk stream.     *)
(***************************************************************************)
FlagTimestamps == {26, RTMP_EXTENDED_TIMESTAMP, 16777221}

FlagChunks ==
    {ChunkInput(0, 3, ts, 3, RTMP_MSG_VideoMessage, 0) : ts \in FlagTimestamps}
    \cup {ChunkInput(0, 3, 16777221, 130, RTMP_MSG_VideoMessage, 0)}
    \cup {ChunkInput(1, 3, ts, 3, RTMP_MSG_AudioMessage, 0) : ts \in {26, 16777221}}
    \cup {ChunkInput(2, 3, ts, 0, 0, 0) : ts \in {26, 16777221}}
    \cup {ChunkInput(3, 3, ts, 0, 0, 0) : ts \in {0, 16777221}}

NextFlags == (\E c \in FlagChunks : PeerSend(c)) \/ RecvMessage

SpecFlags == Init /\ [][NextFlags]_vars

(***************************************************************************)
(* The same connection with a peer that sends messages of two chunks on    *)
(* two chunk streams, each with its own timestamps, message type and       *)
(* stream id, in every interleaving of their chunks.                       *)
(***************************************************************************)
InterleavedChunks ==
    {[ChunkInput(0, 3, 26, 130, RTMP_MSG_AudioMessage, 0) EXCEPT !.sid = 1],
     ChunkInput(2, 3, 26, 0, 0, 0),
     ChunkInput(3, 3, 0, 0, 0, 0),
     [ChunkInput(0, 4, 40, 130, RTMP_MSG_VideoMessage, 0) EXCEPT !.sid = 2],
     ChunkInput(2, 4, 40, 0, 0, 0),
     ChunkInput(3, 4, 0, 0, 0, 0)}

\* the stream id the peer uses on the chunk stream cid
InterleavedStreamId(cid) == cid - 2

NextInterleaved == (\E c \in InterleavedChunks : PeerSendTimed(c)) \/ RecvMessage

SpecInterleaved == Init /\ [][NextInterleaved]_vars

(***************************************************************************)
(* The peer cuts chunks short: it writes a chunk header and fewer payload  *)
(* bytes than the chunk has, then goes on with the next chunk header.  The *)
(* decoder has nothing but the byte count to tell payload from header.     *)
(***************************************************************************)
\* the payload bytes of these chunks: each reads as the basic header of a
\* format-1 chunk on chunk stream 4
CutPayload(n) == [j \in 1..n |-> BasicHeaderBytes(1, 4)[1]]

\* a message of 200 bytes on chunk stream 4, begun with format 0 and
\* continued with format 3
InflightChunks ==
    {ChunkInput(0, 4, 26, 200, RTMP_MSG_AudioMessage, 0),
     ChunkInput(3, 4, 0, 0, 0, 0)}

\* the payload bytes the peer delivers with a chunk header
InflightDeliveries == {0, 50, 72, 128}

\* the decoder's next chunk starts where one of the peer's chunks starts
InStep == off = Len(buf) \/ \E i \in 1..Len(wire) : wire[i].from = off

\* the peer writes the header of chunk c and n payload bytes; it stops when
\* the decoder has left its framing
PeerSendCut(c, n) ==
    /\ err = NoError
    /\ InStep
    /\ Len(wire) < MaxChunks
    /\ recv_interlaced_message(chunkStreams, inChunkSize, buf, off).blocked
    /\ \E bytes \in {BasicHeaderBytes(c.fmt, c.cid) \o MessageHeaderBytes(c)
                        \o CutPayload(n)} :
           /\ buf' = HPBufferAppend(buf, bytes)
           /\ recv_bytes' = SocketRead(recv_bytes, bytes)
    /\ wire' = Append(wire, [fmt |-> c.fmt, cid |-> c.cid, len |-> c.len, size |-> n,
                             from |-> Len(buf)])
    /\ UNCHANGED <<off, send_bytes, chunkStreams, inChunkSize, outChunkSize, inAckSize,
                   err, delivered, parts, accepted, announced, last, peer, expect, amf0,
                   handshake, clock, live, ensure, stream, out>>

NextInflight ==
    (\E c \in InflightChunks, n \in InflightDeliveries : PeerSendCut(c, n)) \/ RecvMessage

SpecInflight == Init /\ [][NextInflight]_vars

(***************************************************************************)
(* The peer announces payload lengths up to the largest the 24-bit field   *)
(* holds.  It writes the chunk headers of the long messages and none of    *)
(* their payload.                                                          *)
(***************************************************************************)
\* 200 bytes, and the two lengths whose top bit is set in the field
AnnouncedLengths == {200, 8388608, RTMP_EXTENDED_TIMESTAMP}

LengthChunks ==
    {ChunkInput(f, 4, 26, len, RTMP_MSG_AudioMessage, 0) :
        f \in {0, 1}, len \in AnnouncedLengths}
    \cup {ChunkInput(3, 4, 0, 0, 0, 0)}

\* a long message has been announced
LongAnnounced == \E i \in 1..Len(wire) : wire[i].len > 200

NextLengths ==
    \/ \E c \in LengthChunks, n \in {0, 72, RTMP_DEFAULT_CHUNK_SIZE} :
          /\ n > 0 => ~LongAnnounced /\ c.len <= 200
          /\ PeerSendCut(c, n)
    \/ RecvMessage

SpecLengths == Init /\ [][NextLengths]_vars

(***************************************************************************)
(* The peer uses the chunk stream ids at the ends of the ranges of the     *)
(* three forms of the basic header, with every format.                     *)
(***************************************************************************)
BasicHeaderCids == {2, 63, 64, 319, 320, 65599}

\* messages of 3 bytes, each whole in its chunk
BasicHeaderChunks ==
    {ChunkInput(f, cid, 26, 3, RTMP_MSG_AudioMessage, 0) :
        f \in 0..3, cid \in BasicHeaderCids}

NextBasicHeader == (\E c \in BasicHeaderChunks : PeerSendCut(c, 3)) \/ RecvMessage

SpecBasicHeader == Init /\ [][NextBasicHeader]_vars

(***************************************************************************)
(* A peer that keeps to the protocol, and a RecvMessage call that is       *)
(* pending throughout: the application calls RecvMessage again as soon as  *)
(* it has returned, and the loop of lines 43-64 goes on whenever           *)
(* EnsureBufferBytes has the bytes it waits for.  live.ready records after *)
(* every step whether the loop can take a turn and live.turns counts the   *)
(* turns, so that LoopTurn is a turn of the loop seen in the history, and  *)
(* a turn that can be taken is taken (weak fairness of LoopTurn).          *)
(***************************************************************************)
LiveChunks ==
    {ChunkInput(0, cid, 26, len, RTMP_MSG_AudioMessage, 0) :
        cid \in {3, 4}, len \in {0, 3, 130}}
    \cup {ChunkInput(3, cid, 0, 0, 0, 0) : cid \in {3, 4}}

\* the loop of RecvMessage has the bytes of a chunk and no error
CanTurn ==
    /\ err = NoError
    /\ \E r \in {recv_interlaced_message(chunkStreams, inChunkSize, buf, off)} :
          ~r.blocked

\* CanTurn after the peer wrote chunk c
CanTurnAfterSend(c) ==
    \E r \in {recv_interlaced_message(chunkStreams, inChunkSize,
                                      HPBufferAppend(buf, PeerChunkBytes(peer, c)), off)} :
       ~r.blocked

\* CanTurn after the turn the loop can take
CanTurnAfterTurn ==
    \E r \in {recv_interlaced_message(chunkStreams, inChunkSize, buf, off)} :
       LET returns == r.err = NoError /\ r.msg # Nil /\ ~IsEmptyMessage(Deref(r.msg))
           st == IF returns THEN on_recv_message(ProtocolState, Deref(r.msg))
                 ELSE ProtocolState
       IN  /\ r.err = NoError
           /\ \E n \in {recv_interlaced_message(r.chunkStreams, st.inChunkSize,
                                                buf, r.off)} :
                 ~n.blocked

PeerSendLive(c) ==
    /\ ChunkKind(peer.cs[c.cid], c) # "bad"
    /\ PeerSendTurn(c)
    /\ live' = [live EXCEPT !.ready = CanTurnAfterSend(c)]
    /\ UNCHANGED <<expect, amf0, handshake, clock, wire, ensure, stream, out>>

RecvMessageLive ==
    /\ RecvMessageTurn
    /\ live' = [ready |-> CanTurnAfterTurn, turns |-> live.turns + 1]
    /\ UNCHANGED <<expect, amf0, handshake, clock, wire, ensure, stream, out>>

LoopTurn ==
    /\ live.ready
    /\ \E ready \in BOOLEAN : live' = [ready |-> ready, turns |-> live.turns + 1]

NextLive == (\E c \in LiveChunks : PeerSendLive(c)) \/ RecvMessageLive

SpecLive == Init /\ [][NextLive]_vars /\ WF_live(LoopTurn)

(***************************************************************************)
(* EnsureBufferBytes (src/rtmp/buffer.go lines 50-69) on the connection    *)
(* buffer, one turn of its loop at a time, and the socket it reads from.   *)
(* A Read call returns when the socket has bytes or has met an error, so   *)
(* the loop goes on whenever it can (weak fairness of its steps).          *)
(***************************************************************************)
connection_reset == "read: connection reset by peer"

\* a loop that tests the bytes ever buffered
EnsureLoopTest_AllBytes(b, o, n) == Len(b) < n

\* buffer.go line 57: for buffer.Len() < n
EnsureLoopTest(b, o, n) == BufLen(b, o) < n

\* what does not belong to the buffer and the socket
EnsureUnchanged ==
    UNCHANGED <<send_bytes, chunkStreams, inChunkSize, outChunkSize, inAckSize, err,
                delivered, parts, accepted, announced, last, peer, expect, amf0,
                handshake, clock, wire, live, stream, out>>

\* the i-th byte the socket receives tells its position
SocketByte(i) == i % 128

\* the socket receives k bytes from the network
SocketReceive(k) ==
    /\ ensure.failure = NoError
    /\ ensure.deliveries < MaxDeliveries
    /\ \E bytes \in {[i \in 1..k |-> SocketByte(ensure.received + i)]} :
          ensure' = [ensure EXCEPT !.transit = @ \o bytes, !.received = @ + k,
                                   !.deliveries = @ + 1]
    /\ UNCHANGED <<buf, off, recv_bytes>>
    /\ EnsureUnchanged

\* the connection ends: the peer closed it, or the network failed
SocketFail(e) ==
    /\ ensure.failure = NoError
    /\ ensure' = [ensure EXCEPT !.failure = e]
    /\ UNCHANGED <<buf, off, recv_bytes>>
    /\ EnsureUnchanged

\* the decoder calls EnsureBufferBytes(n)
EnsureCall(n) ==
    /\ ensure.pc = "idle"
    /\ ensure.calls < MaxDeliveries
    /\ ensure' = [ensure EXCEPT !.pc = "loop", !.n = n, !.err = NoError,
                                !.calls = @ + 1, !.reads = 0, !.failed = 0]
    /\ UNCHANGED <<buf, off, recv_bytes>>
    /\ EnsureUnchanged

\* the loop test fails: the call returns nil
EnsureReturn ==
    /\ ensure.pc = "loop"
    /\ ~EnsureLoopTest(buf, off, ensure.n)
    /\ ensure' = [ensure EXCEPT !.pc = "returned"]
    /\ UNCHANGED <<buf, off, recv_bytes>>
    /\ EnsureUnchanged

\* one turn of the loop: conn.Read into the 4096 bytes of buf, then Append.
\* Read returns the bytes the socket holds, 4096 at most, or stops 3 bytes
\* short of filling buf, or returns the error of the socket: the end of the
\* stream after the last byte, another error at any time.
EnsureRead ==
    /\ ensure.pc = "loop"
    /\ EnsureLoopTest(buf, off, ensure.n)
    /\ \/ /\ ensure.transit # <<>>
          /\ \E nsize \in {Min(Len(ensure.transit), RTMP_SOCKET_READ_SIZE - 3),
                            Min(Len(ensure.transit), RTMP_SOCKET_READ_SIZE)} :
                /\ buf' = HPBufferAppend(buf, SubSeq(ensure.transit, 1, nsize))
                /\ recv_bytes' = recv_bytes + nsize
                /\ ensure' = [ensure EXCEPT
                                 !.transit = SubSeq(@, nsize + 1, Len(@)),
                                 !.reads = @ + 1]
       \/ /\ ensure.failure # NoError
          /\ ensure.transit = <<>> \/ ensure.failure # io_EOF
          /\ ensure' = [ensure EXCEPT !.pc = "returned", !.err = ensure.failure,
                                      !.reads = @ + 1, !.failed = @ + 1]
          /\ UNCHANGED <<buf, recv_bytes>>
    /\ off' = off
    /\ EnsureUnchanged

\* after a call that returned nil the decoder reads k of the bytes
EnsureConsume(k) ==
    /\ ensure.pc = "returned"
    /\ ensure.err = NoError
    /\ k <= ensure.n
    /\ off' = off + k
    /\ ensure' = [ensure EXCEPT !.pc = "idle"]
    /\ UNCHANGED <<buf, recv_bytes>>
    /\ EnsureUnchanged

NextEnsure ==
    \/ \E k \in {3, RTMP_SOCKET_READ_SIZE + 1} : SocketReceive(k)
    \/ \E e \in {io_EOF, connection_reset} : SocketFail(e)
    \/ \E n \in {4, RTMP_SOCKET_READ_SIZE + 4} : EnsureCall(n)
    \/ EnsureReturn
    \/ EnsureRead
    \/ \E k \in {0, ensure.n} : EnsureConsume(k)

SpecEnsure ==
    Init /\ [][NextEnsure]_vars /\ WF_vars(EnsureReturn) /\ WF_vars(EnsureRead)

(***************************************************************************)
(* The cursors of the two buffers: the connection buffer under the chunk   *)
(* decoder, with a peer that sends or omits the extended timestamp, and a  *)
(* stream of payload bytes under the AMF0 decoder. The stream holds the    *)
(* encoding of one or two values, cut anywhere; the decoder's reads are    *)
(* called on it in any order, each from where the last one stopped. The    *)
(* two buffers are separate objects: a behaviour follows one of them.      *)
(***************************************************************************)
\* the object {a: true}, a string that announces more than it has, and a
\* marker the decoder does not know
StreamPieces ==
    {AnyWrite(v, NewRtmpStream(StreamSize)).bytes : v \in Amf0Values}
    \cup {<<RTMP_AMF0_Object, 0, 1, 97, RTMP_AMF0_Boolean, 1, 0, 0, RTMP_AMF0_ObjectEnd>>,
          <<RTMP_AMF0_String, 0, 5, 97>>, <<97>>}

StreamInputs ==
    UNION {{SubSeq(p \o q, 1, n) : n \in 0..Len(p \o q)} :
              p \in StreamPieces, q \in StreamPieces}

StreamReads ==
    {"ReadUtf8", "ReadString", "ReadNumber", "ReadBoolean", "ReadObject",
     "ReadEcmaArray", "AnyRead"}

StreamUnchanged ==
    UNCHANGED <<buf, off, recv_bytes, send_bytes, chunkStreams, inChunkSize,
                outChunkSize, inAckSize, err, delivered, parts, accepted, announced,
                last, peer, expect, amf0, handshake, clock, wire, live, ensure, out>>

\* NewRtmpStream(payload)
StreamOpen(bytes) ==
    /\ buf = <<>>
    /\ stream = Stream0
    /\ stream' = [Stream0 EXCEPT !.bytes = bytes, !.op = "NewRtmpStream"]
    /\ StreamUnchanged

\* one read of the codec at the cursor
StreamRead(op) ==
    /\ stream.op # "none"
    /\ LET b == stream.bytes
           o == stream.off
           r == CASE op = "ReadUtf8" -> ReadUtf8(b, o)
                  [] op = "ReadString" -> ReadString(b, o)
                  [] op = "ReadNumber" -> ReadNumber(b, o)
                  [] op = "ReadBoolean" -> ReadBoolean(b, o)
                  [] op = "ReadObject" -> ReadObject(b, o)
                  [] op = "ReadEcmaArray" -> ReadEcmaArray(b, o)
                  [] op = "AnyRead" -> AnyRead(b, o)
       IN  stream' = [stream EXCEPT !.off = r.off, !.before = o, !.op = op,
                                    !.err = r.err]
    /\ StreamUnchanged

NextCursor ==
    \/ \E c \in OmittedChunks : stream = Stream0 /\ ~OutOfStep /\ PeerSend(c)
    \/ stream = Stream0 /\ RecvMessage
    \/ \E bytes \in StreamInputs : StreamOpen(bytes)
    \/ \E op \in StreamReads : StreamRead(op)

SpecCursor == Init /\ [][NextCursor]_vars

(***************************************************************************)
(* SendPacket and the outbound chunk codec. Their code is not among the    *)
(* sources (messages.go lines 200-211 declare them, rtmp.go calls them):   *)
(* they are modelled from sections 4.4 and 4.5 of the specification. A     *)
(* call encodes the packet into a message of the packet's size, type and   *)
(* preferred chunk stream, and writes it segment by segment; the next call *)
(* starts when it has returned.                                            *)
(***************************************************************************)
\* the chunk streams the packets prefer (spec section 4.4)
RTMP_CID_ProtocolControl == 2
RTMP_CID_OverConnection == 3

\* the packets sent: SetWindowAckSize (GetSize 4, messages.go lines 487-495)
\* and commands of 128, 129 and 300 bytes
SendPackets ==
    {[cid |-> RTMP_CID_ProtocolControl, len |-> 4,
      mtype |-> RTMP_MSG_WindowAcknowledgementSize]}
    \cup {[cid |-> RTMP_CID_OverConnection, len |-> len,
           mtype |-> RTMP_MSG_AMF0CommandMessage] :
             len \in {RTMP_DEFAULT_CHUNK_SIZE, RTMP_DEFAULT_CHUNK_SIZE + 1, 300}}

\* the chunk sizes the application sends with
OutChunkSizes == {100, RTMP_DEFAULT_CHUNK_SIZE}

SendUnchanged ==
    UNCHANGED <<buf, off, recv_bytes, chunkStreams, inChunkSize, inAckSize, err,
                delivered, parts, accepted, announced, last, peer, expect, amf0,
                handshake, clock, wire, live, ensure, stream>>

\* a codec that writes every message as one chunk
SegmentSize_Whole(chunk_size, remaining) == remaining

\* section 4.4: the payload segment of a chunk
SegmentSize(chunk_size, remaining) == Min(chunk_size, remaining)

\* a codec that writes the full header on every chunk
SegmentFormat_AlwaysType0(is_first) == RTMP_FMT_TYPE0

\* section 4.4: fmt 0 for the first segment, fmt 3 for the later ones
SegmentFormat(is_first) == IF is_first THEN RTMP_FMT_TYPE0 ELSE 3

\* the application sets the chunk size it sends with, between two calls
SetOutChunkSize(c) ==
    /\ out.pc = "idle"
    /\ c # outChunkSize
    /\ outChunkSize' = c
    /\ UNCHANGED <<send_bytes, out>>
    /\ SendUnchanged

\* section 4.5, send_packet(packet, stream_id): the message is made and
\* handed to the chunk codec
SendPacket(pkt, stream_id) ==
    /\ out.pc = "idle"
    /\ Len(out.sent) < MaxSends
    /\ out' = [out EXCEPT
                  !.sent = Append(@, [cid |-> pkt.cid, len |-> pkt.len,
                                      mtype |-> pkt.mtype, stream_id |-> stream_id,
                                      chunk_size |-> outChunkSize]),
                  !.pc = "sending", !.left = pkt.len]
    /\ UNCHANGED <<send_bytes, outChunkSize>>
    /\ SendUnchanged

\* section 4.4: the chunk codec writes the next segment of the message
SendChunk ==
    /\ out.pc = "sending"
    /\ out.left > 0
    /\ LET m == out.sent[Len(out.sent)]
           is_first == out.left = m.len
           format == SegmentFormat(is_first)
           size == SegmentSize(outChunkSize, out.left)
           header == IF format = RTMP_FMT_TYPE0
                     THEN Ptr([len |-> m.len, mtype |-> m.mtype, stream_id |-> m.stream_id])
                     ELSE Nil
           bytes == Len(BasicHeaderBytes(format, m.cid)) + mh_sizes[format + 1] + size
       IN  /\ out' = [out EXCEPT
                         !.chunks = Append(@, [format |-> format, cid |-> m.cid,
                                               size |-> size, from |-> m.len - out.left,
                                               header |-> header, msg |-> Len(out.sent)]),
                         !.left = @ - size]
           /\ send_bytes' = send_bytes + bytes
    /\ UNCHANGED outChunkSize
    /\ SendUnchanged

\* the call returns when the whole payload is written
SendReturn ==
    /\ out.pc = "sending"
    /\ out.left <= 0
    /\ out' = [out EXCEPT !.pc = "idle"]
    /\ UNCHANGED <<send_bytes, outChunkSize>>
    /\ SendUnchanged

NextSend ==
    \/ \E c \in OutChunkSizes : SetOutChunkSize(c)
    \/ \E pkt \in SendPackets, stream_id \in {0, 1} : SendPacket(pkt, stream_id)
    \/ SendChunk
    \/ SendReturn

SpecSend == Init /\ [][NextSend]_vars

(***************************************************************************)
(* ExpectMessage (protocol.go lines 73-123).  The caller passes v, which   *)
(* is a pointer to a packet pointer of type P, some other value, or a nil  *)
(* pointer.  One turn of its loop is one turn of RecvMessage and, when     *)
(* that returns a message, the decoding and the test of the packet.        *)
(***************************************************************************)
ERROR_GO_REFLECT_PTR_REQUIRES == "ERROR_GO_REFLECT_PTR_REQUIRES"
ERROR_GO_REFLECT_NEVER_NIL == "ERROR_GO_REFLECT_NEVER_NIL"

PacketTypes == {"ConnectAppPacket", "SetWindowAckSizePacket"}

\* a test that takes every packet
ConvertibleTo_Any(pkt, P) == TRUE

\* protocol.go lines 107-119: the packet can be set to *v
ConvertibleTo(pkt, P) == pkt.type = P

\* protocol.go lines 74-87: the call starts, or returns at once
ExpectMessageCall(kind, P) ==
    /\ expect.state # "running"
    /\ err = NoError
    /\ expect' = IF kind = "value"
                 THEN [Expect0 EXCEPT !.state = "returned", !.P = P,
                                      !.err = ERROR_GO_REFLECT_PTR_REQUIRES,
                                      !.from = Len(delivered)]
                 ELSE IF kind = "nil"
                 THEN [Expect0 EXCEPT !.state = "returned", !.P = P,
                                      !.err = ERROR_GO_REFLECT_NEVER_NIL,
                                      !.from = Len(delivered)]
                 ELSE [Expect0 EXCEPT !.state = "running", !.P = P,
                                      !.from = Len(delivered)]
    /\ UNCHANGED <<buf, off, recv_bytes, send_bytes, chunkStreams, inChunkSize,
                   outChunkSize, inAckSize, err, delivered, parts, accepted, announced,
                   last, peer>>
    /\ UNCHANGED apart

\* protocol.go lines 89-120
ExpectMessage ==
    /\ expect.state = "running"
    /\ RecvMessageTurn
    /\ expect' =
          IF err' # NoError THEN [expect EXCEPT !.state = "returned", !.err = err']
          ELSE IF ~last'.returned \/ Deref(last'.msg).PayloadNil THEN expect
          ELSE LET m == Deref(last'.msg)
                   d == DecodePacket(m.Header, m.Payload)
                   e == [expect EXCEPT !.call = last'.calls, !.reset = d.reset]
               IN  IF d.err # NoError
                   THEN [e EXCEPT !.state = "returned", !.err = d.err, !.msg = last'.msg]
                   ELSE IF d.pkt = Nil THEN e
                   ELSE IF ConvertibleTo(Deref(d.pkt), expect.P)
                   THEN [e EXCEPT !.state = "returned", !.msg = last'.msg, !.pkt = d.pkt]
                   ELSE e
    /\ UNCHANGED apart

\* the chunks the peer chooses from: whole messages of several kinds
ExpectChunks ==
    {ChunkInput(0, 3, 0, Len(CommandPayload(v)), RTMP_MSG_AMF0CommandMessage, v) :
        v \in {1, 2, 3}}
    \cup {ChunkInput(0, 2, 0, 4, RTMP_MSG_WindowAcknowledgementSize, 100)}
    \cup {ChunkInput(0, 4, 26, len, RTMP_MSG_AudioMessage, 0) : len \in {0, 3}}

NextExpect ==
    \/ \E c \in ExpectChunks : PeerSend(c)
    \/ \E kind \in {"ptr", "value", "nil"}, P \in PacketTypes : ExpectMessageCall(kind, P)
    \/ ExpectMessage

SpecExpect == Init /\ [][NextExpect]_vars

(***************************************************************************)
(* ExpectMessage with a peer that sends commands as AMF0 and as AMF3       *)
(* command messages and as data messages, whole or cut after the name.     *)
(***************************************************************************)
CommandChunks ==
    {ChunkInput(0, 3, 0, Len(CommandPayload(v)), RTMP_MSG_AMF0CommandMessage, v) :
        v \in {1, 2, 4}}
    \cup {ChunkInput(0, 3, 0, Len(CommandPayload(2)), mtype, 2) :
            mtype \in {RTMP_MSG_AMF0DataMessage, RTMP_MSG_AMF3DataMessage}}
    \cup {ChunkInput(0, 3, 0, Len(Amf3CommandPayload(v)), RTMP_MSG_AMF3CommandMessage, v) :
            v \in {1, 2, 4}}
    \cup {ChunkInput(0, 4, 26, 3, RTMP_MSG_AudioMessage, 0)}

NextCommands ==
    \/ \E c \in CommandChunks : PeerSend(c)
    \/ \E kind \in {"ptr", "value", "nil"}, P \in PacketTypes : ExpectMessageCall(kind, P)
    \/ ExpectMessage

SpecCommands == Init /\ [][NextCommands]_vars

SpecAmf0 == Init /\ [][NextAmf0]_vars

SpecHandshake == Init /\ [][NextHandshake]_vars

(***************************************************************************)
(* Properties of the decoder.                                              *)
(***************************************************************************)
CeilDiv(a, b) == (a + b - 1) \div b

\* the messages with a payload that the peer has written completely, in the
\* order in which their last chunk went onto the wire
IsNonEmpty(d) == d.len > 0

NonEmptyDone == SelectSeq(peer.done, IsNonEmpty)

\* the message the last call returned, and its history
LastMsg == Deref(last.msg)

LastDelivered == delivered[Len(delivered)]

\* the bytes of the connection that the chunks of a delivered message carried
ChunkPayloads(d) ==
    Flatten([i \in 1..Len(d.chunks) |->
                SubSeq(buf, d.chunks[i].from + 1, d.chunks[i].from + d.chunks[i].size)])

\* C1: every message RecvMessage returns holds as many payload bytes as its
\* header announces, and has received all of them.
C1_PayloadLengthIsHeaderLength ==
    last.returned =>
        /\ Len(LastMsg.Payload) = LastMsg.Header.PayloadLength
        /\ LastMsg.ReceivedPayloadLength = LastMsg.Header.PayloadLength

\* C1 witness: a message of several chunks, the last one of format 1, was returned.
C1_Witness ==
    /\ last.returned
    /\ last.format = 1
    /\ Len(LastDelivered.chunks) >= 2

\* the chunks of d are a format-0 chunk followed by format-3 chunks
IsType0ThenType3(d) ==
    /\ d.chunks[1].format = 0
    /\ \A i \in 2..Len(d.chunks) : d.chunks[i].format = 3

\* C2: a message of L > 0 bytes that arrived as a format-0 chunk and format-3
\* chunks was consumed as ceil(L / inChunkSize) chunks of min(inChunkSize,
\* remaining) payload bytes, and its payload is the chunk payloads in arrival
\* order, which is the payload the peer sent.
C2_ChunksConcatenated ==
    (last.returned /\ IsType0ThenType3(LastDelivered)) =>
        LET d == LastDelivered
            L == LastMsg.Header.PayloadLength
        IN  /\ L > 0
            /\ Len(d.chunks) = CeilDiv(L, inChunkSize)
            /\ \A i \in 1..Len(d.chunks) :
                    d.chunks[i].size = Min(inChunkSize, L - (i - 1) * inChunkSize)
            /\ LastMsg.Payload = ChunkPayloads(d)
            /\ Len(delivered) <= Len(NonEmptyDone)
            /\ LastMsg.Payload = PeerData(NonEmptyDone[Len(delivered)])

\* C2 witness: 300 bytes arrived as 128 + 128 + 44.
C2_Witness ==
    /\ last.returned
    /\ IsType0ThenType3(LastDelivered)
    /\ [i \in 1..Len(LastDelivered.chunks) |-> LastDelivered.chunks[i].size]
            = <<128, 128, 44>>

\* the byte positions of the connection that delivered message d carried
PayloadPositions(d) ==
    UNION {(d.chunks[i].from + 1)..(d.chunks[i].from + d.chunks[i].size) :
                i \in 1..Len(d.chunks)}

\* C3: a message whose last payload bytes a call has read (lines 381-386) is
\* returned by that call; the returned messages are as many as the peer has
\* completed, each returned by a call of its own, and no byte of the
\* connection is in the payload of two of them.
C3_HandedUpExactlyOnce ==
    /\ (last.err = NoError /\ last.payload_size > 0
            /\ last.received + last.payload_size = last.length)
          => (last.returned /\ LastDelivered.call = last.calls)
    /\ \A i, j \in 1..Len(delivered) :
            i < j => /\ delivered[i].call < delivered[j].call
                     /\ PayloadPositions(delivered[i]) \cap PayloadPositions(delivered[j]) = {}
    /\ Len(delivered) <= Len(NonEmptyDone)
    /\ (err = NoError /\ off = Len(buf)) => Len(delivered) = Len(NonEmptyDone)

\* C3 witness: a message was returned and two later calls have run on its chunk stream.
C3_Witness ==
    /\ Len(delivered) >= 1
    /\ err = NoError
    /\ last.cid = delivered[1].cid
    /\ last.calls >= delivered[1].call + 2

\* C4: the messages are returned in the order in which the peer completed them.
C4_OrderOfLastChunk ==
    /\ Len(delivered) <= Len(NonEmptyDone)
    /\ \A i \in 1..Len(delivered) :
            /\ delivered[i].cid = NonEmptyDone[i].cid
            /\ delivered[i].header.PayloadLength = NonEmptyDone[i].len
    /\ \A i, j \in 1..Len(delivered) :
            i < j => delivered[i].chunks[Len(delivered[i].chunks)].from
                        < delivered[j].chunks[Len(delivered[j].chunks)].from

\* C4 witness: the second message returned started before the first one did.
C4_Witness ==
    /\ Len(delivered) >= 2
    /\ delivered[2].chunks[1].from < delivered[1].chunks[1].from
    /\ delivered[1].cid # delivered[2].cid

\* C5: a chunk of format 1, 2 or 3 on a chunk stream that has accepted no chunk
\* fails with ERROR_RTMP_CHUNK_START and emits no message.
C5_FirstChunkIsType0 ==
    (last.calls > 0 /\ last.first /\ last.format \in {1, 2, 3}) =>
        /\ last.err = ERROR_RTMP_CHUNK_START
        /\ err = ERROR_RTMP_CHUNK_START
        /\ ~last.emitted
        /\ ~last.returned

\* C5 witness: a format-3 chunk opened a chunk stream after another stream was in use.
C5_Witness ==
    /\ last.first
    /\ last.format = 3
    /\ accepted # {}
    /\ last.err = ERROR_RTMP_CHUNK_START

\* C6: a format-0 chunk on a chunk stream whose slot holds a message fails
\* with ERROR_RTMP_CHUNK_START.
C6_Type0OnPartialMessage ==
    (last.partial /\ last.format = 0) =>
        /\ last.err = ERROR_RTMP_CHUNK_START
        /\ err = ERROR_RTMP_CHUNK_START
        /\ ~last.returned

\* C6 witness: a format-0 chunk arrived after 128 of 300 bytes.
C6_Witness ==
    /\ last.partial
    /\ last.format = 0
    /\ last.received = 128
    /\ last.allocated = 300

\* C7: on a chunk stream whose slot holds a message, a format-1 chunk that
\* announces another payload length fails with ERROR_RTMP_PACKET_SIZE, and one
\* that announces the same length is accepted and continues the message.
C7_Type1SizeOnPartialMessage ==
    (last.partial /\ last.format = 1) =>
        IF last.length # last.allocated
        THEN err = ERROR_RTMP_PACKET_SIZE /\ last.err = ERROR_RTMP_PACKET_SIZE
                /\ ~last.returned
        ELSE /\ last.err = NoError
             /\ last.payload_size = Min(inChunkSize, last.allocated - last.received)

\* C7 witness: 130 announced while a message of 300 bytes is in the slot.
C7_Witness ==
    /\ last.partial
    /\ last.format = 1
    /\ last.allocated = 300
    /\ last.length = 130

\* C7 witness of the other case: the same length announced again.
C7_WitnessSameLength ==
    /\ last.partial
    /\ last.format = 1
    /\ last.length = last.allocated
    /\ last.err = NoError

\* C8: when a chunk completes a message, the slot of its chunk stream is
\* empty when the call returns.
C8_SlotEmptyAfterLastChunk ==
    (last.calls > 0 /\ last.err = NoError
        /\ last.received + last.payload_size = last.length) =>
        /\ last.emitted
        /\ chunkStreams[last.cid].Msg = Nil

\* C8 witness: the chunk with the last 44 bytes of a message was read.
C8_Witness ==
    /\ last.emitted
    /\ last.payload_size = 44
    /\ last.received = 256

\* C9: when a message is returned while a window W > 0 is in force and more
\* than W bytes were received since the last acknowledgement, the call has
\* written an Acknowledgement and moved acked_size to the received-byte total.
C9_AckEchoed ==
    (last.returned /\ last.window > 0
        /\ last.recv_bytes - last.acked_size > last.window) =>
        /\ last.wrote
        /\ inAckSize.acked_size = last.recv_bytes

\* C10: inChunkSize is 128 until a SetChunkSize message is returned and is the
\* value of the last such message from then on, and every chunk is read with
\* min(that size, remaining) payload bytes.
C10_InChunkSizeFollowsSetChunkSize ==
    /\ inChunkSize = announced.chunkSize
    /\ (last.calls > 0 /\ last.err = NoError /\ last.length > 0) =>
            last.payload_size = Min(last.chunk_size, last.length - last.received)

\* C11: once a WindowAcknowledgementSize message carrying W was returned, the
\* inbound ACK window of the protocol is W.
C11_AckWindowFollowsSetWindowAckSize ==
    inAckSize.ack_window_size = announced.ackWindow

\* C12: a completed message of payload length 0 is not returned and does not
\* end the loop; every message returned has a payload length above 0 and has
\* received all of its payload.
C12_NoZeroLengthMessage ==
    /\ (last.calls > 0 /\ last.err = NoError /\ last.length = 0) =>
            (last.emitted /\ ~last.returned /\ err = NoError)
    /\ last.returned =>
            /\ LastMsg.Header.PayloadLength > 0
            /\ LastMsg.ReceivedPayloadLength = LastMsg.Header.PayloadLength
    /\ \A i \in 1..Len(delivered) : delivered[i].header.PayloadLength > 0

\* C12 witness: a message of length 0 was skipped and the next call returned a
\* message with a payload.
C12_Witness ==
    /\ last.returned
    /\ Len(peer.done) >= 2
    /\ \E i \in 1..Len(peer.done) : peer.done[i].len = 0 /\ i < Len(peer.done)

\* the packet the peer's message d is: a packet type, "error" for a packet
\* that does not decode, "none" for a message that is no packet
PeerVariant(d) ==
    IF d.mtype = RTMP_MSG_AMF0CommandMessage
    THEN IF d.val = 1 THEN "ConnectAppPacket" ELSE IF d.val = 2 THEN "none" ELSE "error"
    ELSE IF d.mtype = RTMP_MSG_WindowAcknowledgementSize THEN "SetWindowAckSizePacket"
    ELSE "none"

\* C13: an ExpectMessage call for P returns the first message received since
\* the call whose packet is a P, with that packet; the messages before it were
\* other packets or none, and were dropped; while none is a P the call runs on,
\* and it returns an error only for an error of the connection, of the
\* decoding or of its argument.
C13_ExpectReturnsFirstMatch ==
    LET n == Len(delivered)
        earlier(m) == \A i \in (expect.from + 1)..m :
                         i <= Len(NonEmptyDone)
                            /\ PeerVariant(NonEmptyDone[i]) \notin {expect.P, "error"}
    IN  /\ (expect.state = "returned" /\ expect.err = NoError) =>
                /\ n > expect.from
                /\ n <= Len(NonEmptyDone)
                /\ PeerVariant(NonEmptyDone[n]) = expect.P
                /\ expect.msg = last.msg
                /\ last.returned
                /\ Deref(expect.pkt).type = expect.P
                /\ earlier(n - 1)
        /\ expect.state = "running" => earlier(n)
        /\ (expect.state = "returned" /\ expect.err # NoError) =>
                /\ earlier(n - 1)
                /\ \/ expect.err \in {ERROR_GO_REFLECT_PTR_REQUIRES,
                                       ERROR_GO_REFLECT_NEVER_NIL}
                   \/ expect.err = err
                   \/ n > expect.from /\ PeerVariant(NonEmptyDone[n]) = "error"

\* C13 witness: the call returned its packet after it dropped two messages.
C13_Witness ==
    /\ expect.state = "returned"
    /\ expect.err = NoError
    /\ Len(delivered) >= expect.from + 3

\* the names in the order of their first Set
RECURSIVE FirstNames(_)
FirstNames(sets) ==
    IF sets = <<>> THEN <<>>
    ELSE LET before == FirstNames(SubSeq(sets, 1, Len(sets) - 1))
             k == sets[Len(sets)].k
         IN  IF \E i \in 1..Len(before) : before[i] = k THEN before
             ELSE Append(before, k)

\* the value of the last Set of the name k
LastSetValue(sets, k) ==
    sets[CHOOSE i \in 1..Len(sets) :
            sets[i].k = k /\ \A j \in (i + 1)..Len(sets) : sets[j].k # k].v

\* the bytes of one value
ValueBytes(a) == AnyWrite(a, NewRtmpStream(StreamSize)).bytes

\* what the Set calls ask Write to emit: marker (and count), each name once in
\* the order of its first Set with the value of its last Set, and 00 00 09
ExpectedContainerBytes ==
    LET names == FirstNames(amf0.sets)
    IN  (IF amf0.v.Marker = RTMP_AMF0_Object THEN <<RTMP_AMF0_Object>>
         ELSE <<RTMP_AMF0_EcmaArray>> \o U32(Len(names)))
        \o Flatten([i \in 1..Len(names) |->
                      U16(Len(names[i])) \o names[i]
                         \o ValueBytes(LastSetValue(amf0.sets, names[i]))])
        \o <<0, 0, RTMP_AMF0_ObjectEnd>>

\* C14: a Write of an Object or EcmaArray that succeeds emits each name once,
\* at the place of its first Set and with the value of its last Set, and then
\* the terminator 00 00 09.
C14_PropertiesInFirstInsertionOrder ==
    (IsContainer(amf0.v) /\ amf0.out # Nil /\ Deref(amf0.out).err = NoError) =>
        Deref(amf0.out).bytes = ExpectedContainerBytes

\* C14 witness: a=1, b=2, a=2.0 were set and the container was written.
C14_Witness ==
    /\ IsContainer(amf0.v)
    /\ amf0.out # Nil
    /\ Deref(amf0.out).err = NoError
    /\ Len(amf0.sets) = 3
    /\ amf0.sets[1].k = <<97>> /\ amf0.sets[2].k = <<98>> /\ amf0.sets[3].k = <<97>>
    /\ \A i \in 1..3 : amf0.sets[i].v.Marker = RTMP_AMF0_Number
    /\ amf0.sets[1].v # amf0.sets[3].v

\* structural equality of two AMF0 values, property order included
RECURSIVE Amf0Equal(_, _)
Amf0Equal(a, b) ==
    /\ a.Marker = b.Marker
    /\ (a.Value = Nil) = (b.Value = Nil)
    /\ a.Value # Nil =>
          IF IsContainer(a)
          THEN LET x == Deref(a.Value)
                   y == Deref(b.Value)
               IN  /\ x.marker = y.marker
                   /\ a.Marker = RTMP_AMF0_EcmaArray => x.count = y.count
                   /\ x.properties.property_index = y.properties.property_index
                   /\ DOMAIN x.properties.properties = DOMAIN y.properties.properties
                   /\ \A k \in DOMAIN x.properties.properties :
                         Amf0Equal(x.properties.properties[k], y.properties.properties[k])
          ELSE Deref(a.Value) = Deref(b.Value)

\* C15: reading the bytes written for a value gives no error and a value
\* structurally equal to the one written.
C15_DecodeEncodeIsIdentity ==
    amf0.back # Nil =>
        /\ Deref(amf0.back).err = NoError
        /\ Amf0Equal(Deref(amf0.back).v, amf0.v)

\* the same for values that hold no Null or Undefined property at any depth
RECURSIVE HasNilProperty(_)
HasNilProperty(a) ==
    /\ IsContainer(a)
    /\ \E k \in DOMAIN Deref(a.Value).properties.properties :
          LET p == Deref(a.Value).properties.properties[k]
          IN  IsNil(p) \/ HasNilProperty(p)

C15_RoundTripWithoutNilProperty ==
    (amf0.back # Nil /\ ~HasNilProperty(amf0.v)) =>
        /\ Deref(amf0.back).err = NoError
        /\ Amf0Equal(Deref(amf0.back).v, amf0.v)

\* C16: Write into a stream of Size() bytes, or a larger one, returns no
\* error and writes exactly Size() bytes.
C16_WriteEmitsSizeBytes ==
    amf0.out # Nil =>
        /\ Deref(amf0.out).err = NoError
        /\ Len(Deref(amf0.out).bytes) = AnySize(amf0.v)

\* the same for values that hold no empty container at any depth
RECURSIVE HasEmptyContainer(_)
HasEmptyContainer(a) ==
    /\ IsContainer(a)
    /\ \/ HashtableCount(Deref(a.Value).properties) = 0
       \/ \E k \in DOMAIN Deref(a.Value).properties.properties :
             HasEmptyContainer(Deref(a.Value).properties.properties[k])

C16_SizeWithoutEmptyContainer ==
    (amf0.out # Nil /\ ~HasEmptyContainer(amf0.v)) =>
        /\ Deref(amf0.out).err = NoError
        /\ Len(Deref(amf0.out).bytes) = AnySize(amf0.v)

HandshakeSucceeded == handshake.pc = "returned" /\ handshake.err = NoError

\* C17: after a successful handshake the 3073 bytes sent are S0, the version
\* byte the client sent, then S1 and S2, both equal to the client's C1.
C17_S1AndS2EchoC1 ==
    HandshakeSucceeded =>
        /\ Len(handshake.s0s1s2) = S0S1S2Size
        /\ handshake.s0s1s2[1] = handshake.client.c0
        /\ SubSeq(handshake.s0s1s2, 2, C0C1Size) = ClientC1(handshake.client)
        /\ SubSeq(handshake.s0s1s2, C0C1Size + 1, S0S1S2Size) = ClientC1(handshake.client)

\* the part of it that the code does: S0 and S1 echo C0 and C1
C17_S0S1EchoC0C1 ==
    HandshakeSucceeded =>
        /\ Len(handshake.s0s1s2) = S0S1S2Size
        /\ handshake.s0s1s2[1] = handshake.client.c0
        /\ SubSeq(handshake.s0s1s2, 2, C0C1Size) = ClientC1(handshake.client)
        /\ SubSeq(handshake.s0s1s2, C0C1Size + 1, S0S1S2Size) = MakeZero(C2Size)

\* C18: the handshake reports success only if C0 is the version byte 3 and the
\* client sent all of C0+C1 and of C2; when the client closes before that,
\* the call returns an error.
C18_FailsOnVersionOrShortRead ==
    /\ HandshakeSucceeded =>
          /\ handshake.client.c0 = RTMP_VERSION
          /\ handshake.client.sent >= C0C1Size + C2Size
    /\ (handshake.pc = "returned" /\ handshake.client.sent < C0C1Size + C2Size) =>
          handshake.err # NoError

\* the part of it that the code does: a short read fails
C18_ShortReadFails ==
    /\ HandshakeSucceeded => handshake.client.sent >= C0C1Size + C2Size
    /\ (handshake.pc = "returned" /\ handshake.client.sent < C0C1Size + C2Size) =>
          handshake.err \in {io_EOF, io_ErrUnexpectedEOF, WriteError}

\* the last turn of the decoder went through the extended timestamp
PeekedExtended == last.calls > 0 /\ last.err = NoError /\ last.header.ExtendedTimestamp

\* the 4 bytes after the message header of the last chunk, big-endian
PeekedTimestamp == ReadUInt32(buf, last.header.off + mh_sizes[last.format + 1])

\* the bytes the last turn consumed between the message header and the payload
ConsumedAfterHeader ==
    off - last.payload_size - last.header.off - mh_sizes[last.format + 1]

\* C19: on a chunk of a chunk stream whose extended-timestamp flag is set, with
\* t the next 4 bytes: if the timestamp of the chunk stream is above 0xFFFFFF
\* and t differs from it, the 4 bytes stay in the buffer, the header size
\* returned is that of the format alone (0 for format 3) and the timestamp is
\* unchanged; otherwise the 4 bytes are consumed and the timestamp is t.
C19_ExtendedTimestampPeek ==
    PeekedExtended =>
        IF last.header.Timestamp > RTMP_EXTENDED_TIMESTAMP
              /\ PeekedTimestamp # last.header.Timestamp
        THEN /\ ConsumedAfterHeader = 0
             /\ last.header.mh_size = mh_sizes[last.format + 1]
             /\ chunkStreams[last.cid].Header.Timestamp = last.header.Timestamp
        ELSE /\ ConsumedAfterHeader = 4
             /\ last.header.mh_size = mh_sizes[last.format + 1] + 4
             /\ chunkStreams[last.cid].Header.Timestamp = PeekedTimestamp

\* C19 witness: a format-3 chunk without the field on a chunk stream whose
\* timestamp is above 0xFFFFFF: the 4 bytes peeked are payload.
C19_Witness ==
    /\ PeekedExtended
    /\ last.format = 3
    /\ last.header.Timestamp > RTMP_EXTENDED_TIMESTAMP
    /\ PeekedTimestamp # last.header.Timestamp
    /\ last.header.mh_size = 0
    /\ last.payload_size > 0

\* a format-3 chunk with the field repeated was consumed
C19_WitnessConsumed ==
    /\ PeekedExtended
    /\ last.format = 3
    /\ ConsumedAfterHeader = 4
    /\ PeekedTimestamp > RTMP_EXTENDED_TIMESTAMP

\* C20: a message with a timestamp T above 0xFFFFFF that the peer sent as a
\* format-0 chunk with 0xFFFFFF and the extended timestamp T, and format-3
\* chunks that repeat T, is returned as one message with the timestamp T and
\* the payload the peer sent.
C20_ExtendedTimestampRoundTrip ==
    /\ ~peer.bad => Len(delivered) <= Len(NonEmptyDone)
    /\ \A i \in 1..Min(Len(delivered), Len(NonEmptyDone)) :
           LET d == NonEmptyDone[i]
           IN  (d.ts0 > RTMP_EXTENDED_TIMESTAMP /\ d.rep) =>
                  /\ delivered[i].cid = d.cid
                  /\ delivered[i].header.Timestamp = d.ts0
                  /\ delivered[i].header.PayloadLength = d.len
                  /\ ChunkPayloads(delivered[i]) = PeerData(d)
                  /\ (i = Len(delivered) /\ last.returned) => LastMsg.Payload = PeerData(d)

\* C20 witness: such a message of two chunks was returned.
C20_Witness ==
    /\ last.returned
    /\ Len(delivered) <= Len(NonEmptyDone)
    /\ NonEmptyDone[Len(delivered)].ts0 > RTMP_EXTENDED_TIMESTAMP
    /\ NonEmptyDone[Len(delivered)].rep
    /\ Len(LastDelivered.chunks) = 2
    /\ LastMsg.Header.Timestamp = 16777221

\* the decoder has read what it can of the bytes received and waits for more
DecoderWaits ==
    /\ err = NoError
    /\ recv_interlaced_message(chunkStreams, inChunkSize, buf, off).blocked

\* the peer's i-th message with a payload was returned as the i-th message,
\* with the timestamp of its format-0 chunk and the payload the peer sent
ReturnedAsSent(i) ==
    LET d == NonEmptyDone[i]
    IN  /\ delivered[i].cid = d.cid
        /\ delivered[i].header.Timestamp = d.ts0
        /\ delivered[i].header.PayloadLength = d.len
        /\ ChunkPayloads(delivered[i]) = PeerData(d)

\* C21: when the decoder has read all it can, every message with a timestamp T
\* above 0xFFFFFF that the peer has completed, its format-3 chunks carrying the
\* extended timestamp or not, has been returned with the timestamp T and the
\* payload the peer sent, whatever the payload bytes are.
C21_OmittedExtendedTimestamp ==
    (DecoderWaits /\ ~peer.bad) =>
        /\ Len(delivered) = Len(NonEmptyDone)
        /\ \A i \in 1..Len(delivered) :
              NonEmptyDone[i].ts0 > RTMP_EXTENDED_TIMESTAMP => ReturnedAsSent(i)

\* the part of it that the code does: with no such payload, the messages of
\* which the decoder has read every byte are returned as sent
C21_OmittedWithoutCollision ==
    (err = NoError /\ off = Len(buf) /\ ~peer.bad /\ ~OutOfStep) =>
        /\ Len(delivered) = Len(NonEmptyDone)
        /\ \A i \in 1..Len(delivered) :
              NonEmptyDone[i].ts0 > RTMP_EXTENDED_TIMESTAMP => ReturnedAsSent(i)

\* the chunk-stream table cs1 holds, for every chunk stream, the message, the
\* cached header and the message count that cs0 held
NoPartialState(cs0, cs1) ==
    \A c \in DOMAIN cs1 :
        LET before == GetChunkStream(cs0, c)
        IN  /\ cs1[c].Msg = before.Msg
            /\ cs1[c].Header = before.Header
            /\ cs1[c].MsgCount = before.MsgCount

\* C22: a receive call that returns an error leaves in the chunk-stream table
\* no message, no change of a cached header and no change of a message count
\* that it made.
C22_NoPartialStateOnError ==
    [][err' # NoError => NoPartialState(chunkStreams, chunkStreams')]_vars

\* the part of it that the code does: the calls that fail with
\* ERROR_RTMP_CHUNK_START return before they change a chunk stream
C22_ChunkStartLeavesNoState ==
    [][err' = ERROR_RTMP_CHUNK_START => NoPartialState(chunkStreams, chunkStreams')]_vars

\* the header h is of a message type DecodePacket has a packet for
IsKnownMessageType(h) ==
    IsAmf0Command(h) \/ IsAmf3Command(h) \/ IsAmf0Data(h) \/ IsAmf3Data(h)
        \/ IsWindowAcknowledgementSize(h)

\* where the command name of the message m is: after the byte that wraps an
\* AMF3 command, else at the start of the payload
NameOffset(m) == IF IsAmf3Command(m.Header) THEN 1 ELSE 0

\* the message m carries a command name
HasCommandName(m) ==
    /\ IsKnownMessageType(m.Header) /\ ~IsWindowAcknowledgementSize(m.Header)
    /\ ReadString(m.Payload, NameOffset(m)).err = NoError

\* the message m is of no message type, or carries no command, the decoder knows
Unrecognised(m) ==
    \/ ~IsKnownMessageType(m.Header)
    \/ HasCommandName(m)
          /\ ReadString(m.Payload, NameOffset(m)).v # AMF0_COMMAND_CONNECT

\* the last receive call returned a message to the ExpectMessage call, which
\* decoded it
DecodedLast == expect.state # "idle" /\ last.returned /\ expect.call = last.calls

\* C23: a message of an unknown message type or with an unknown command name
\* that an ExpectMessage call receives gives no error: the call drops it and
\* runs on, and the connection keeps receiving.
C23_UnknownMessageIsDropped ==
    (DecodedLast /\ Unrecognised(LastMsg)) =>
        /\ expect.state = "running"
        /\ expect.err = NoError
        /\ expect.pkt = Nil
        /\ expect.msg = Nil
        /\ err = NoError

\* C23 witness: the call runs on after it dropped an audio message and a
\* _result command.
C23_Witness ==
    /\ DecodedLast /\ Unrecognised(LastMsg)
    /\ Len(delivered) >= expect.from + 2
    /\ LastMsg.Header.MessageType = RTMP_MSG_AMF0CommandMessage
    /\ \E i \in (expect.from + 1)..Len(delivered) :
          delivered[i].header.MessageType = RTMP_MSG_AudioMessage

\* C24: when DecodePacket has read the command name of a command or data
\* message, it sets the cursor to 1 for an AMF3 command message and to 0 for
\* the others, whatever follows the name.
C24_CursorResetAfterPeek ==
    (DecodedLast /\ HasCommandName(LastMsg)) => expect.reset = NameOffset(LastMsg)

\* the part of it that the code does: the same for the messages in which a
\* byte follows the command name
C24_ResetWhenBytesFollow ==
    (DecodedLast /\ HasCommandName(LastMsg)
        /\ Buffered(LastMsg.Payload, ReadString(LastMsg.Payload, NameOffset(LastMsg)).off, 1))
        => expect.reset = NameOffset(LastMsg)

\* the timestamp the peer's history gives the chunk stream c, with and without
\* the deltas that format-3 chunks replayed
ClockTimestamp(c) == clock[c].base + clock[c].deltas + clock[c].replays

ClockWithoutReplays(c) == clock[c].base + clock[c].deltas

TookChunk(format) ==
    /\ last'.calls # last.calls
    /\ err' = NoError
    /\ last'.format = format

\* C26: a format-3 chunk that starts a message on a chunk stream whose
\* extended-timestamp flag is clear adds the last timestamp delta of the chunk
\* stream to its timestamp; a format-3 chunk that continues the message in the
\* slot leaves the timestamp as it is; the message carries that timestamp.
C26_Type3ReplaysDelta ==
    [][TookChunk(3) =>
        LET before == chunkStreams[last'.cid]
            after == chunkStreams'[last'.cid]
        IN  /\ (before.Msg = Nil /\ ~before.ExtendedTimestamp) =>
                  after.Header.Timestamp
                      = before.Header.Timestamp + before.Header.TimestampDelta
            /\ before.Msg # Nil => after.Header.Timestamp = before.Header.Timestamp
            /\ last'.emitted => Deref(last'.msg).Header.Timestamp = after.Header.Timestamp
      ]_vars

\* C26 witness: after a message with timestamp 26 a format-3 chunk started a
\* message, which was returned with timestamp 52.
C26_Witness ==
    /\ last.returned
    /\ last.format = 3
    /\ ~last.partial
    /\ clock[last.cid] = [base |-> 26, deltas |-> 0, replays |-> 26, field |-> 26]
    /\ LastMsg.Header.Timestamp = 52

\* a format-3 chunk continued the message in the slot
C26_WitnessContinued ==
    /\ last.err = NoError
    /\ last.format = 3
    /\ last.partial
    /\ last.received > 0

\* the fields of the cached header that a chunk of the given format carries
\* no value for
InheritedFields(format) ==
    IF format = 1 THEN {"StreamId"}
    ELSE IF format = 2 THEN {"PayloadLength", "MessageType", "StreamId"}
    ELSE {"PayloadLength", "MessageType", "StreamId", "TimestampDelta"}

\* C27: a receive call that takes a format-1, format-2 or format-3 chunk leaves
\* the fields of the cached header that the format does not carry as they
\* were, and the message of the chunk stream carries the cached header.
C27_HeaderInheritance ==
    [][\A format \in {1, 2, 3} :
          TookChunk(format) =>
              LET before == chunkStreams[last'.cid]
                  after == chunkStreams'[last'.cid]
              IN  /\ \A f \in InheritedFields(format) : after.Header[f] = before.Header[f]
                  /\ last'.emitted => Deref(last'.msg).Header = after.Header
                  /\ after.Msg # Nil => Deref(after.Msg).Header = after.Header
      ]_vars

\* C27 witness: a message that a format-2 chunk started was returned with the
\* length 130, the type and the stream id 2 of the message before it.
C27_Witness ==
    /\ last.returned
    /\ LastDelivered.chunks[1].format = 2
    /\ LastMsg.Header.PayloadLength = 130
    /\ LastMsg.Header.MessageType = RTMP_MSG_VideoMessage
    /\ LastMsg.Header.StreamId = 2

\* the 24-bit timestamp field of the chunk the last receive call took
TimestampField == ReadUInt24(buf, last'.header.off)

\* C28: a receive call that takes a format-0, 1 or 2 chunk leaves the
\* extended-timestamp flag of the chunk stream set if the 24-bit timestamp
\* field of the chunk is 0xFFFFFF and clear if it is smaller; a call that takes
\* a format-3 chunk leaves the flag as it was.
C28_FlagFollowsLastField ==
    [][\A format \in 0..3 :
          TookChunk(format) =>
              LET before == GetChunkStream(chunkStreams, last'.cid)
                  after == chunkStreams'[last'.cid]
              IN  after.ExtendedTimestamp
                    = IF format <= RTMP_FMT_TYPE2
                      THEN TimestampField = RTMP_EXTENDED_TIMESTAMP
                      ELSE before.ExtendedTimestamp
      ]_vars

\* C28 witness: a format-2 chunk with a small delta cleared the flag that a
\* message with an extended timestamp had set.
C28_Witness ==
    /\ last.calls > 0
    /\ last.err = NoError
    /\ last.format = 2
    /\ ~chunkStreams[last.cid].ExtendedTimestamp
    /\ \E i \in 1..Len(delivered) :
          /\ delivered[i].cid = last.cid
          /\ delivered[i].call < last.calls
          /\ delivered[i].header.Timestamp = 16777221

\* a format-3 chunk was taken with the flag set, and left it set
C28_WitnessType3 ==
    /\ last.calls > 0
    /\ last.err = NoError
    /\ last.format = 3
    /\ chunkStreams[last.cid].ExtendedTimestamp

\* C29: a receive call changes the chunk stream of the chunk it takes and no
\* other, and no other step changes a chunk stream; a message is returned
\* with the header and the payload the peer sent on its chunk stream, whatever
\* chunks of the other chunk stream came between its chunks.
C29_OnlyOwnChunkStreamChanges ==
    [][IF last'.calls = last.calls THEN chunkStreams' = chunkStreams
       ELSE /\ \A c \in DOMAIN chunkStreams' \ {last'.cid} :
                  c \in DOMAIN chunkStreams /\ chunkStreams'[c] = chunkStreams[c]
            /\ last'.returned =>
                  LET d == NonEmptyDone[Len(delivered')]
                      m == Deref(last'.msg)
                  IN  /\ Len(delivered') <= Len(NonEmptyDone)
                      /\ d.cid = last'.cid
                      /\ m.Payload = PeerData(d)
                      /\ m.Header.PayloadLength = d.len
                      /\ m.Header.MessageType = d.mtype
                      /\ m.Header.StreamId = InterleavedStreamId(d.cid)
                      /\ m.Header.Timestamp = ClockTimestamp(d.cid)
      ]_vars

\* C29 witness: two messages whose chunks alternated on the wire were both
\* returned.
C29_Witness ==
    /\ Len(delivered) = 2
    /\ last.returned
    /\ delivered[1].cid # delivered[2].cid
    /\ Len(delivered[1].chunks) = 2
    /\ Len(delivered[2].chunks) = 2
    /\ delivered[1].chunks[1].from < delivered[2].chunks[1].from
    /\ delivered[2].chunks[1].from < delivered[1].chunks[2].from

\* the container read back and the container written
ContainerRead == Deref(Deref(amf0.back).v.Value)

ContainerWritten == Deref(amf0.v.Value)

\* C30: the property loop of Object.Read and EcmaArray.Read ends at the empty
\* name followed by the object-end marker and nowhere before it: every
\* property written is stored, in order, whatever its value is, and the read
\* ends behind the 3 bytes of the terminator.
C30_LoopEndsAtObjectEndOnly ==
    (amf0.back # Nil /\ IsContainer(amf0.v) /\ Deref(amf0.back).err = NoError) =>
        /\ ContainerRead.properties.property_index
              = ContainerWritten.properties.property_index
        /\ Deref(amf0.back).off = Len(Deref(amf0.out).bytes)

\* the part of it that the code does: the same for the containers that hold no
\* Null or Undefined property at any depth
C30_StoredWithoutNilProperty ==
    (amf0.back # Nil /\ IsContainer(amf0.v) /\ Deref(amf0.back).err = NoError
        /\ ~HasNilProperty(amf0.v)) =>
        /\ ContainerRead.properties.property_index
              = ContainerWritten.properties.property_index
        /\ Deref(amf0.back).off = Len(Deref(amf0.out).bytes)

\* MsgCount of chunk stream c in the table cs, 0 while the table has no entry
MsgCountOf(cs, c) == IF c \in DOMAIN cs THEN cs[c].MsgCount ELSE 0

\* the receive call of this step worked on chunk stream c
CallOn(c) == last'.calls # last.calls /\ last'.cid = c

\* C31: MsgCount counts the messages completed on the chunk stream: a step
\* adds one to it when the receive call completes a message on that chunk
\* stream and leaves it alone otherwise, so it is 0 until the first message is
\* complete, however many chunks the message has.
C31_MsgCountCountsMessages ==
    [][\A c \in DOMAIN chunkStreams' :
          MsgCountOf(chunkStreams', c)
              = MsgCountOf(chunkStreams, c)
                    + IF CallOn(c) /\ last'.emitted THEN 1 ELSE 0]_vars

\* what the code counts: the chunk headers accepted on the chunk stream
C31_MsgCountCountsChunkHeaders ==
    [][\A c \in DOMAIN chunkStreams' :
          MsgCountOf(chunkStreams', c)
              = MsgCountOf(chunkStreams, c)
                    + IF CallOn(c) /\ last'.err = NoError THEN 1 ELSE 0]_vars

\* the receive call has read what it can of the bytes received
ReadAllItCan == err # NoError \/ DecoderWaits

\* the peer began a message with a format-0 chunk of n payload bytes and
\* wrote a format-0 chunk header on the same chunk stream next
Type0AfterBytes(n) ==
    /\ Len(wire) >= 2
    /\ wire[1].fmt = 0 /\ wire[1].len = 200 /\ wire[1].size = n
    /\ wire[2].fmt = 0 /\ wire[2].cid = wire[1].cid

\* C32 as stated: with the chunk size 128, a format-0 chunk header written
\* after 50 payload bytes of a message of 200 bytes on the same chunk stream
\* ends the receive call with ERROR_RTMP_CHUNK_START.
C32_Type0InsideChunkIsDetected ==
    (Type0AfterBytes(50) /\ ReadAllItCan) => err = ERROR_RTMP_CHUNK_START

\* C32 amended: the format-0 chunk header is detected when it is written
\* after the 128 payload bytes of the whole chunk; written after 50 payload
\* bytes it is read as payload, and while the chunk is not full the receive
\* call waits with no error and no message.
C32_Type0AtChunkBoundaryIsDetected ==
    /\ (Type0AfterBytes(RTMP_DEFAULT_CHUNK_SIZE) /\ ReadAllItCan) =>
          /\ err = ERROR_RTMP_CHUNK_START
          /\ last.err = ERROR_RTMP_CHUNK_START
          /\ last.partial /\ last.received = RTMP_DEFAULT_CHUNK_SIZE
          /\ delivered = <<>>
    /\ (Type0AfterBytes(50)
            /\ Len(buf) < wire[1].from + 1 + mh_sizes[1] + RTMP_DEFAULT_CHUNK_SIZE) =>
          /\ DecoderWaits
          /\ delivered = <<>>

\* C32 witness: the format-0 chunk header after the whole chunk was refused.
C32_Witness ==
    /\ Type0AfterBytes(RTMP_DEFAULT_CHUNK_SIZE)
    /\ err = ERROR_RTMP_CHUNK_START
    /\ last.calls = 2

\* C32 witness: the format-0 chunk header and 50 more bytes after 50 payload
\* bytes, and the decoder waits for the rest of the first chunk.
C32_WitnessInsideChunk ==
    /\ Type0AfterBytes(50)
    /\ wire[2].size = 50
    /\ Len(wire) = 2
    /\ DecoderWaits

\* the header that the receive call which waits for bytes has cached on its
\* chunk stream
PendingHeader ==
    LET bh == read_basic_header(buf, off)
    IN  IF err # NoError \/ bh.blocked THEN NewRtmpMessageHeader
        ELSE read_message_header(GetChunkStream(chunkStreams, bh.cid), bh.format,
                                 buf, bh.off).chunk.Header

\* C33: every payload length cached for a chunk stream, by a call that ended
\* or by the call that waits, is within 0..0xFFFFFF, and a receive call whose
\* chunk has a payload length that is negative as int32 fails with
\* ERROR_RTMP_MSG_INVLIAD_SIZE: no call does.
C33_PayloadLengthIs24Bit ==
    /\ \A c \in DOMAIN chunkStreams :
          chunkStreams[c].Header.PayloadLength \in 0..RTMP_EXTENDED_TIMESTAMP
    /\ PendingHeader.PayloadLength \in 0..RTMP_EXTENDED_TIMESTAMP
    /\ (last.calls > 0 /\ ToInt32(last.length) < 0) =>
          last.err = ERROR_RTMP_MSG_INVLIAD_SIZE
    /\ err # ERROR_RTMP_MSG_INVLIAD_SIZE

\* C33 witness: a format-1 chunk announced the length 0xFFFFFF on a chunk
\* stream that holds 128 bytes of a message of 200; the call failed on the
\* changed size, and the length is cached.
C33_Witness ==
    /\ err = ERROR_RTMP_PACKET_SIZE
    /\ chunkStreams[4].Header.PayloadLength = RTMP_EXTENDED_TIMESTAMP
    /\ last.received = RTMP_DEFAULT_CHUNK_SIZE

\* C33 witness: the first chunk of a message of 0xFFFFFF bytes was accepted
\* and the call waits for its payload.
C33_WitnessPending ==
    /\ DecoderWaits
    /\ wire # <<>>
    /\ PendingHeader.PayloadLength = RTMP_EXTENDED_TIMESTAMP

\* the bytes the receive call of this step took for the basic header: up to
\* the message header when it parsed one, all it took when it refused the
\* chunk at the start of the message header
BasicHeaderTaken ==
    IF last'.err = NoError THEN last'.header.off - off ELSE off' - off

\* C34: every receive call takes the format from bits 7..6 and cid_lo from
\* bits 5..0 of the first byte of the chunk; cid_lo 0 gives the chunk stream
\* id 64 + the next byte and 2 bytes taken, cid_lo 1 gives 64 + b0 + 256 * b1
\* and 3 bytes taken, any other cid_lo is the chunk stream id and 1 byte is
\* taken; the format is in 0..3 and the chunk stream id in 2..65599.
C34_BasicHeader ==
    [][(last'.calls # last.calls
           /\ last'.err \in {NoError, ERROR_RTMP_CHUNK_START}) =>
          LET first == buf[off + 1]
              cid_lo == first % 64
          IN  /\ last'.format = first \div 64
              /\ cid_lo = 0 =>
                    last'.cid = 64 + buf[off + 2] /\ BasicHeaderTaken = 2
              /\ cid_lo = 1 =>
                    /\ last'.cid = 64 + buf[off + 2] + 256 * buf[off + 3]
                    /\ BasicHeaderTaken = 3
              /\ cid_lo > 1 => last'.cid = cid_lo /\ BasicHeaderTaken = 1
              /\ last'.format \in 0..3
              /\ last'.cid \in 2..65599]_vars

\* C34 witness: a format-3 chunk on chunk stream 65599, which takes the
\* 3-byte basic header with both bytes 255, was accepted.
C34_Witness ==
    /\ last.cid = 65599
    /\ last.format = 3
    /\ last.err = NoError
    /\ last.header.off = wire[Len(wire)].from + 3

\* C34 witness: a format-2 chunk on chunk stream 319, the last of the 2-byte
\* basic header, was accepted.
C34_WitnessTwoBytes ==
    /\ last.cid = 319
    /\ last.format = 2
    /\ last.err = NoError
    /\ last.header.off = wire[Len(wire)].from + 2

\* the i-th message returned is the peer's i-th message with a payload
ReturnedWhole(i) ==
    /\ Len(delivered) >= i
    /\ delivered[i].cid = NonEmptyDone[i].cid
    /\ delivered[i].header.PayloadLength = NonEmptyDone[i].len
    /\ ChunkPayloads(delivered[i]) = PeerData(NonEmptyDone[i])

\* C35: RecvMessage returns no more messages than the peer has completed with
\* a payload, so it does not return while only incomplete and zero-length
\* messages have arrived, and once the peer has written all chunks of its
\* i-th message with a payload the pending call eventually returns it.
C35_CompleteMessageIsReturned ==
    /\ [](err = NoError /\ Len(delivered) <= Len(NonEmptyDone))
    /\ [](live.ready <=> CanTurn)
    /\ \A i \in 1..MaxChunks : (Len(NonEmptyDone) >= i) ~> ReturnedWhole(i)

\* C35 witness: a message of two chunks was returned after a zero-length
\* message and before the peer finished its next message.
C35_Witness ==
    /\ Len(delivered) = 1
    /\ Len(LastDelivered.chunks) = 2
    /\ ReturnedWhole(1)
    /\ Len(peer.done) = 2
    /\ peer.done[1].len = 0
    /\ peer.nchunks = 4

\* the socket has, or has had, what ends the EnsureBufferBytes call: the
\* bytes it lacks, or an error
Supplied ==
    \/ BufLen(buf, off) + Len(ensure.transit) >= ensure.n
    \/ ensure.failure # NoError

\* C36: EnsureBufferBytes(n) returns nil only with n unread bytes or more in
\* the buffer; a step that changes the buffer appends the next bytes of the
\* socket, 4096 at most, behind the bytes buffered and leaves the cursor;
\* a Read that fails ends the call with the error of the socket, at once; and
\* a call returns when the socket has the bytes it lacks or an error.
C36_EnsureBufferBytes ==
    /\ []((ensure.pc = "returned" /\ ensure.err = NoError) =>
             BufLen(buf, off) >= ensure.n)
    /\ [][/\ Len(buf') >= Len(buf)
          /\ SubSeq(buf', 1, Len(buf)) = buf
          /\ buf' # buf =>
                /\ off' = off
                /\ buf' \o ensure'.transit = buf \o ensure.transit
                /\ Len(buf') - Len(buf) <= RTMP_SOCKET_READ_SIZE]_vars
    /\ [](ensure.failed > 0 =>
             /\ ensure.failed = 1
             /\ ensure.pc = "returned"
             /\ ensure.err = ensure.failure)
    /\ []((ensure.pc = "returned" /\ ensure.err # NoError) => ensure.failed = 1)
    /\ (ensure.pc = "loop" /\ Supplied) ~> (ensure.pc = "returned")

\* C36 witness: a call for 4100 bytes returned nil after two Read calls, with
\* bytes of an earlier call consumed.
C36_Witness ==
    /\ ensure.pc = "returned"
    /\ ensure.err = NoError
    /\ ensure.n = RTMP_SOCKET_READ_SIZE + 4
    /\ ensure.reads >= 2
    /\ off > 0

\* C36 witness: a call ended with the error of a connection that was reset
\* while the socket held bytes.
C36_WitnessError ==
    /\ ensure.pc = "returned"
    /\ ensure.err = connection_reset
    /\ ensure.transit # <<>>
    /\ ensure.reads >= 2

\* C37: the cursor of the connection buffer and the cursor of a payload stream
\* stay between 0 and the number of bytes of their buffer, whatever bytes the
\* chunk decoder and the AMF0 decoder are given.
C37_CursorInsideBuffer ==
    /\ 0 <= off /\ off <= Len(buf)
    /\ 0 <= stream.off /\ stream.off <= Len(stream.bytes)
    /\ 0 <= stream.before /\ stream.before <= Len(stream.bytes)

\* C37 witness: after an earlier read, Any.Read took the last byte of the
\* stream, a Null marker: it read it, moved back by Next(-1), and moved on.
C37_Witness ==
    /\ stream.op = "AnyRead"
    /\ stream.err = NoError
    /\ stream.before > 0
    /\ stream.bytes[stream.before + 1] = RTMP_AMF0_Null
    /\ stream.off = Len(stream.bytes)

\* C37 witness: Any.Read met a marker it does not know at the start of the
\* stream and left the cursor at 0.
C37_WitnessRewound ==
    /\ stream.op = "AnyRead"
    /\ stream.err = ERROR_RTMP_AMF0_INVALID
    /\ stream.bytes # <<>>
    /\ stream.off = 0

\* C37 witness: the chunk decoder left the 4 bytes after a format-3 header
\* where they were, and the cursor is at the end of the buffer.
C37_WitnessChunks ==
    /\ last.calls > 0
    /\ last.err = NoError
    /\ last.format = 3
    /\ last.header.ExtendedTimestamp
    /\ ConsumedAfterHeader = 0
    /\ off = Len(buf)

\* the chunks written for the i-th SendPacket call, in the order written
ChunksOfSend(i) == SelectSeq(out.chunks, LAMBDA c : c.msg = i)

\* the i-th call has returned
SendDone(i) == i < Len(out.sent) \/ out.pc = "idle"

\* C38: a message of L payload bytes sent with the chunk size C is written as
\* ceil(L/C) chunks on the chunk stream the packet prefers, the first of
\* format 0 with the full header, the later ones of format 3, the k-th with
\* min(C, L - (k-1)C) payload bytes, and no chunk of a call is written before
\* the last chunk of the call before it.
C38_SendPacketChunks ==
    /\ \A i \in 1..Len(out.sent) :
          LET m == out.sent[i]
              cs == ChunksOfSend(i)
          IN  /\ Len(cs) <= CeilDiv(m.len, m.chunk_size)
              /\ SendDone(i) => Len(cs) = CeilDiv(m.len, m.chunk_size)
              /\ \A k \in 1..Len(cs) :
                    /\ cs[k].cid = m.cid
                    /\ cs[k].from = (k - 1) * m.chunk_size
                    /\ cs[k].size = Min(m.chunk_size, m.len - (k - 1) * m.chunk_size)
                    /\ k = 1 => /\ cs[k].format = RTMP_FMT_TYPE0
                                /\ cs[k].header =
                                      Ptr([len |-> m.len, mtype |-> m.mtype,
                                           stream_id |-> m.stream_id])
                    /\ k > 1 => cs[k].format = 3 /\ cs[k].header = Nil
    /\ \A j \in 1..Len(out.chunks), k \in 1..Len(out.chunks) :
          j < k => out.chunks[j].msg <= out.chunks[k].msg

\* C38 witness: a message of 300 bytes went out as 3 chunks of 128, 128 and
\* 44 bytes, and one of 129 bytes with the chunk size 100 as 2 chunks after it.
C38_Witness ==
    /\ out.pc = "idle"
    /\ Len(out.sent) = 3
    /\ out.sent[2].len = 300 /\ out.sent[2].chunk_size = RTMP_DEFAULT_CHUNK_SIZE
    /\ Len(ChunksOfSend(2)) = 3
    /\ ChunksOfSend(2)[3].size = 44
    /\ out.sent[3].len = RTMP_DEFAULT_CHUNK_SIZE + 1 /\ out.sent[3].chunk_size = 100
    /\ out.sent[3].cid # out.sent[1].cid
    /\ Len(ChunksOfSend(3)) = 2

\* the errors of reading the client's bytes
ReadErrors == {io_EOF, io_ErrUnexpectedEOF}

\* C39: S0S1S2 is written only when all 1537 bytes of C0C1 were read; success
\* is returned only when the 1536 bytes of C2 were read after that write; an
\* error of a step is the error returned, no later step is performed, and
\* nothing is done after the return.
C39_HandshakeSequential ==
    /\ [](handshake.s0s1s2 # <<>> =>
             /\ Len(handshake.c0c1) = C0C1Size
             /\ handshake.read >= C0C1Size
             /\ handshake.client.sent >= C0C1Size)
    /\ [](handshake.c2 # <<>> => handshake.s0s1s2 # <<>>)
    /\ [](HandshakeSucceeded =>
             /\ Len(handshake.s0s1s2) = S0S1S2Size
             /\ Len(handshake.c2) = C2Size
             /\ handshake.read = C0C1Size + C2Size
             /\ handshake.client.sent >= C0C1Size + C2Size)
    /\ [](handshake.err # NoError =>
             /\ handshake.pc = "returned"
             /\ handshake.c2 = <<>>
             /\ handshake.c0c1 = <<>> =>
                   handshake.s0s1s2 = <<>> /\ handshake.err \in ReadErrors
             /\ (handshake.c0c1 # <<>> /\ handshake.s0s1s2 = <<>>) =>
                   handshake.err = WriteError
             /\ handshake.s0s1s2 # <<>> => handshake.err \in ReadErrors)
    /\ [][handshake.pc = "returned" =>
             /\ handshake'.pc = "returned"
             /\ handshake'.err = handshake.err
             /\ handshake'.read = handshake.read
             /\ handshake'.c0c1 = handshake.c0c1
             /\ handshake'.s0s1s2 = handshake.s0s1s2
             /\ handshake'.c2 = handshake.c2]_vars

\* C39 witness: the handshake succeeded after the three steps.
C39_Witness ==
    /\ HandshakeSucceeded
    /\ Len(handshake.c0c1) = C0C1Size
    /\ Len(handshake.s0s1s2) = S0S1S2Size
    /\ Len(handshake.c2) = C2Size

\* C39 witness: the write failed after C0C1 was read, and C2 was not read
\* though the client had sent it.
C39_WitnessWriteError ==
    /\ handshake.pc = "returned"
    /\ handshake.err = WriteError
    /\ handshake.c0c1 # <<>>
    /\ handshake.client.sent >= C0C1Size + C2Size

\* C39 witness: the client closed inside C2, after the write.
C39_WitnessShortC2 ==
    /\ handshake.pc = "returned"
    /\ handshake.err = io_ErrUnexpectedEOF
    /\ handshake.s0s1s2 # <<>>

\* the ordering vector of the hashtable h names every key of its map once: it
\* has no name twice, its names are the keys, and Count() is its length
IndexedOnce(h) ==
    /\ \A i \in 1..Len(h.property_index), j \in 1..Len(h.property_index) :
          h.property_index[i] = h.property_index[j] => i = j
    /\ {h.property_index[i] : i \in 1..Len(h.property_index)} = DOMAIN h.properties
    /\ HashtableCount(h) = Len(h.property_index)

\* the hashtable of a container
HashtableOf(a) == Deref(a.Value).properties

\* the step is a Set call on the container
IsSetCall == amf0'.call # Nil /\ amf0'.out = Nil /\ amf0'.back = Nil

\* C40: after any Set calls on an Object or EcmaArray, and on the containers
\* among its properties, property_index has no name twice and holds the keys
\* of the properties map, so Count() is the number of its slots; a Set with a
\* nil value returns ERROR_GO_AMF0_NIL_PROPERTY and leaves both as they were.
C40_IndexMatchesMap ==
    /\ [](IsContainer(amf0.v) =>
             /\ IndexedOnce(HashtableOf(amf0.v))
             /\ \A k \in DOMAIN HashtableOf(amf0.v).properties :
                   LET a == HashtableOf(amf0.v).properties[k]
                   IN  IsContainer(a) => IndexedOnce(HashtableOf(a)))
    /\ [][IsSetCall =>
             IF Deref(amf0'.call).p = Nil
             THEN /\ amf0'.err = ERROR_GO_AMF0_NIL_PROPERTY
                  /\ amf0'.v = amf0.v
             ELSE /\ amf0'.err = NoError
                  /\ Deref(amf0'.call).k \in DOMAIN HashtableOf(amf0'.v).properties]_vars

\* C40 witness: a was set twice with different values, then with a nil value,
\* which was refused; the vector holds a once.
C40_Witness ==
    /\ IsContainer(amf0.v)
    /\ Len(amf0.sets) = 2
    /\ amf0.sets[1].k = amf0.sets[2].k /\ amf0.sets[1].v # amf0.sets[2].v
    /\ amf0.call # Nil /\ Deref(amf0.call).p = Nil
    /\ Deref(amf0.call).k = amf0.sets[1].k
    /\ amf0.err = ERROR_GO_AMF0_NIL_PROPERTY
    /\ amf0.out = Nil
    /\ Len(HashtableOf(amf0.v).property_index) = 1

====
